---- MODULE Spec2Model ----
(***************************************************************************)
(* Model of the DateMeDirectory profile acquisition pipeline.              *)
(*                                                                         *)
(* Every script of the repository is a sequential program that loads JSON  *)
(* lists from disk, loops over them and writes a JSON list back.  The      *)
(* model keeps                                                             *)
(*   disk : the files, as a function from file name to file content        *)
(*   pc   : the position of the running program                            *)
(*   args : its command line                                               *)
(*   mem  : its local variables (lists being processed, counters)          *)
(*   now  : the wall clock used for timestamps                             *)
(* and has one action per loop iteration outcome, load and write.          *)
(*                                                                         *)
(* Python values:                                                          *)
(*   a text is a sequence of one-character strings;                        *)
(*   an optional dict key is a sequence of length 0 (absent) or 1;         *)
(*   a timestamp is a natural number, 0 standing for JSON null;            *)
(*   profileDetails.fullText is flattened into the field fullText          *)
(*   (absent when profileDetails is missing, null or has no fullText).     *)
(***************************************************************************)
EXTENDS Integers, Sequences, FiniteSets, TLC

VARIABLES pc, disk, args, mem, now

vars == <<pc, disk, args, mem, now>>

----------------------------------------------------------------------------
(* Bounds *)

MaxLen == 3

MaxClock == 3

----------------------------------------------------------------------------
(* Python values *)

None == <<>>

Some(x) == <<x>>

IsSome(o) == Len(o) = 1

Get(o) == o[1]

\* "a" stands for a word character (\w), " " for whitespace, "-" for any
\* other character (punctuation).
Alphabet == {"a", " ", "-"}

\* characters outside Alphabet occur only in the fixed phrases and URLs below
IsSpace(c) == c = " "

IsPunct(c) == c \in {"-", "'", "/", ".", ":", "~"}

IsWordChar(c) == ~IsSpace(c) /\ ~IsPunct(c)

Texts == UNION {[1..n -> Alphabet] : n \in 0..MaxLen}

RECURSIVE lstrip(_)
lstrip(t) == IF t # <<>> /\ IsSpace(Head(t)) THEN lstrip(Tail(t)) ELSE t

RECURSIVE rstrip(_)
rstrip(t) ==
    IF t # <<>> /\ IsSpace(t[Len(t)]) THEN rstrip(SubSeq(t, 1, Len(t) - 1)) ELSE t

\* str.strip()
strip(t) == rstrip(lstrip(t))

\* number of maximal runs of characters satisfying the test: position i starts
\* a run when it satisfies the test and position i-1 does not
RunStarts(t, Test(_)) ==
    {i \in 1..Len(t) : Test(t[i]) /\ (i = 1 \/ ~Test(t[i - 1]))}

IsNonSpace(c) == ~IsSpace(c)

\* len(re.findall(r"\b\w+\b", text)), 0 for an empty text
word_count(t) == IF t = <<>> THEN 0 ELSE Cardinality(RunStarts(t, IsWordChar))

\* len(text.split())
split_len(t) == Cardinality(RunStarts(t, IsNonSpace))

\* sub in s, for strings
Contains(s, sub) ==
    \E i \in 1..(Len(s) - Len(sub) + 1) : SubSeq(s, i, i + Len(sub) - 1) = sub

\* str.lower(), over the upper-case letters of the texts and URLs explored
LowerChar(c) ==
    CASE c = "N" -> "n" [] c = "A" -> "a" [] c = "H" -> "h"
      [] c = "T" -> "t" [] c = "P" -> "p" [] OTHER -> c

lower(t) == [i \in 1..Len(t) |-> LowerChar(t[i])]

----------------------------------------------------------------------------
(* scripts/scrapingscripts/merge_fulltext_by_id.py *)

\* u.get(k) is truthy for a string-valued key: the key is present and its
\* value is not empty ("" also stands for a JSON null)
Truthy(o) == IsSome(o) /\ Get(o) # ""

\* (d.get("fullText") or "").strip()
get_fulltext(p) == strip(IF IsSome(p.fullText) THEN Get(p.fullText) ELSE <<>>)

set_fulltext_Accumulates(p, text) ==
    [p EXCEPT !.fullText = Some((IF IsSome(@) THEN Get(@) ELSE <<>>) \o text)]

\* lines 16-19
set_fulltext(p, text) == [p EXCEPT !.fullText = Some(text)]

MergeAccepts_IgnoresGain(old_wc, new_wc, min_gain) == new_wc >= old_wc /\ new_wc > 0

MergeAccepts_AllowsEmpty(old_wc, new_wc, min_gain) == new_wc >= old_wc + min_gain

\* the gate of line 56
MergeAccepts(old_wc, new_wc, min_gain) == new_wc >= old_wc + min_gain /\ new_wc > 0

Accepts(b, u, min_gain) ==
    MergeAccepts(word_count(get_fulltext(b)), word_count(get_fulltext(u)), min_gain)

Propagate_DropsPlatform(b, u) ==
    [b EXCEPT
        !.scrapeTimestampDetail =
            IF IsSome(u.scrapeTimestampDetail) THEN u.scrapeTimestampDetail ELSE @,
        !.expandedUrl = IF Truthy(u.expandedUrl) THEN u.expandedUrl ELSE @]

\* lines 60-64: propagate timestamps/metadata if present
Propagate(b, u) ==
    [b EXCEPT
        !.scrapeTimestampDetail =
            IF IsSome(u.scrapeTimestampDetail) THEN u.scrapeTimestampDetail ELSE @,
        !.expandedUrl = IF Truthy(u.expandedUrl) THEN u.expandedUrl ELSE @,
        !.docPlatform = IF Truthy(u.docPlatform) THEN u.docPlatform ELSE @]

\* lines 57-64: the body of an accepted update
ApplyUpdate(b, u) == Propagate(set_fulltext(b, get_fulltext(u)), u)

\* base_by_id = {p.get("id"): p for p in base if p.get("id")}: a later record
\* with the same id replaces an earlier one
base_by_id(base) ==
    [uid \in {base[i].id : i \in 1..Len(base)} \ {""} |->
        CHOOSE i \in 1..Len(base) :
            /\ base[i].id = uid
            /\ \A j \in 1..Len(base) : base[j].id = uid => j <= i]

MergeFiles == {"base", "updates", "out"}

\* lines 31-40
MergeLoad ==
    /\ pc = "merge_start"
    /\ IsSome(disk[args.base_json]) /\ IsSome(disk[args.updates_json])
    /\ mem' = [base |-> Get(disk[args.base_json]),
               updates |-> Get(disk[args.updates_json]),
               k |-> 1, touched |-> 0, improved |-> 0, missing |-> 0]
    /\ pc' = "merge_loop"
    /\ UNCHANGED <<disk, args, now>>

\* the update the loop of line 42 is at
CurUpdate == mem.updates[mem.k]

InBase(u) == u.id # "" /\ u.id \in DOMAIN base_by_id(mem.base)

MergeMissing_Appends ==
    /\ pc = "merge_loop" /\ mem.k <= Len(mem.updates)
    /\ ~InBase(CurUpdate)
    /\ mem' = [mem EXCEPT !.base = Append(@, CurUpdate),
                          !.missing = @ + 1, !.k = @ + 1]
    /\ UNCHANGED <<pc, disk, args, now>>

\* lines 43-46
MergeMissing ==
    /\ pc = "merge_loop" /\ mem.k <= Len(mem.updates)
    /\ ~InBase(CurUpdate)
    /\ mem' = [mem EXCEPT !.missing = @ + 1, !.k = @ + 1]
    /\ UNCHANGED <<pc, disk, args, now>>

\* lines 48-67, gate true
MergeAccept ==
    /\ pc = "merge_loop" /\ mem.k <= Len(mem.updates)
    /\ InBase(CurUpdate)
    /\ LET i == base_by_id(mem.base)[CurUpdate.id]
       IN /\ Accepts(mem.base[i], CurUpdate, args.min_gain)
          /\ mem' = [mem EXCEPT !.base[i] = ApplyUpdate(@, CurUpdate),
                                !.improved = @ + 1, !.touched = @ + 1,
                                !.k = @ + 1]
    /\ UNCHANGED <<pc, disk, args, now>>

\* lines 48-56 and 67, gate false
MergeReject ==
    /\ pc = "merge_loop" /\ mem.k <= Len(mem.updates)
    /\ InBase(CurUpdate)
    /\ LET i == base_by_id(mem.base)[CurUpdate.id]
       IN ~Accepts(mem.base[i], CurUpdate, args.min_gain)
    /\ mem' = [mem EXCEPT !.touched = @ + 1, !.k = @ + 1]
    /\ UNCHANGED <<pc, disk, args, now>>

\* lines 69-72
MergeWrite ==
    /\ pc = "merge_loop" /\ mem.k > Len(mem.updates)
    /\ disk' = [disk EXCEPT ![args.output_json] = Some(mem.base)]
    /\ pc' = "merge_done"
    /\ UNCHANGED <<args, mem, now>>

NextMerge == MergeLoad \/ MergeMissing \/ MergeAccept \/ MergeReject \/ MergeWrite

\* ---- inputs of the merge runs that are explored ----

MaxGain == 1

MinGains == (0 - 1)..MaxGain

OldTexts == {t \in Texts : Len(t) < MaxLen}

StaleAux == [expandedUrl |-> Some("https://old.example/x"),
             docPlatform |-> Some("custom_site"),
             scrapeTimestampDetail |-> Some(1)]

BareAux == [expandedUrl |-> None, docPlatform |-> None,
            scrapeTimestampDetail |-> Some(0)]

FreshAux == [expandedUrl |-> Some("https://notion.so/xyz"),
             docPlatform |-> Some("notion"),
             scrapeTimestampDetail |-> Some(2)]

NoAux == [expandedUrl |-> None, docPlatform |-> None,
          scrapeTimestampDetail |-> None]

EmptyAux == [expandedUrl |-> Some(""), docPlatform |-> None,
             scrapeTimestampDetail |-> Some(0)]

Rec(id, text, aux) ==
    [id |-> id, fullText |-> text, expandedUrl |-> aux.expandedUrl,
     docPlatform |-> aux.docPlatform,
     scrapeTimestampDetail |-> aux.scrapeTimestampDetail]

OptTexts(S) == {None} \cup {Some(t) : t \in S}

\* a record that was fetched before has the fields of that fetch, a record
\* that was never fetched may have none
MergeBases ==
    {<<Rec("usr_1", t, StaleAux), Rec("usr_2", Some(<<"a">>), StaleAux)>> :
        t \in OptTexts(OldTexts)}
      \cup {<<Rec("usr_1", None, BareAux), Rec("usr_2", Some(<<"a">>), StaleAux)>>}

SecondUpdates ==
    {<<>>,
     <<Rec("usr_9", Some(<<"a">>), FreshAux)>>,
     <<Rec("usr_1", Some(<<"a", "-", "a">>), NoAux)>>,
     <<Rec("usr_2", Some(<<"a", " ">>), FreshAux)>>}

MergeUpdates ==
    {<<Rec("usr_1", t, a)>> \o rest :
        t \in OptTexts(Texts), a \in {FreshAux, NoAux, EmptyAux},
        rest \in SecondUpdates}

InitMerge ==
    /\ pc = "merge_start"
    /\ \E b \in MergeBases, u \in MergeUpdates :
          disk = [f \in MergeFiles |->
                    IF f = "base" THEN Some(b)
                    ELSE IF f = "updates" THEN Some(u) ELSE None]
    /\ \E g \in MinGains :
          args = [base_json |-> "base", updates_json |-> "updates",
                  output_json |-> "out", min_gain |-> g]
    /\ mem = [base |-> <<>>, updates |-> <<>>, k |-> 1,
              touched |-> 0, improved |-> 0, missing |-> 0]
    /\ now = 0

SpecMerge == InitMerge /\ [][NextMerge]_vars

----------------------------------------------------------------------------
(* Claims about merge_fulltext_by_id, stated on a finished run: the base    *)
(* file is the input, the output file is the result.                        *)

MergeIn == Get(disk[args.base_json])

MergeOut == Get(disk[args.output_json])

MergeUps == Get(disk[args.updates_json])

\* the updates that are applied to base record i
UpdatesFor(i) ==
    {k \in 1..Len(MergeUps) :
        /\ MergeUps[k].id # ""
        /\ MergeUps[k].id \in DOMAIN base_by_id(MergeIn)
        /\ base_by_id(MergeIn)[MergeUps[k].id] = i}

\* wordcount(candidate) >= wordcount(old) + min_gain and wordcount(candidate) > 0
GateHolds(old, cand, g) ==
    word_count(cand) >= word_count(old) + g /\ word_count(cand) > 0

\* the one update of base record i, when it has exactly one
TheUpdate(i) == MergeUps[CHOOSE k \in UpdatesFor(i) : TRUE]

\* C1: merge monotonicity.  In a finished merge, a base record all of whose
\* updates have wordcount(candidate) < wordcount(old) + min_gain has in the
\* output exactly the fullText it had in the base (ties with min_gain = 1
\* included).
C1_MergeMonotone ==
    pc = "merge_done" =>
        \A i \in 1..Len(MergeIn) :
            (\A k \in UpdatesFor(i) :
                word_count(get_fulltext(MergeUps[k]))
                    < word_count(get_fulltext(MergeIn[i])) + args.min_gain)
            => MergeOut[i].fullText = MergeIn[i].fullText

\* a finished merge with min_gain = 1 in which a record had an update with the
\* same positive word count as, but another text than, the stored one
C1_Witness ==
    /\ pc = "merge_done" /\ args.min_gain = 1
    /\ \E i \in 1..Len(MergeIn) :
          /\ UpdatesFor(i) # {}
          /\ \A k \in UpdatesFor(i) :
                /\ word_count(get_fulltext(MergeUps[k])) =
                       word_count(get_fulltext(MergeIn[i]))
                /\ word_count(get_fulltext(MergeUps[k])) > 0
                /\ get_fulltext(MergeUps[k]) # get_fulltext(MergeIn[i])
          /\ mem.touched > mem.improved

\* C2: merge acceptance.  In a finished merge, a base record with exactly one
\* update has the candidate text (the update's fullText as get_fulltext reads
\* it) in the output if wordcount(candidate) >= wordcount(old) + min_gain and
\* wordcount(candidate) > 0, and its old fullText otherwise; the number of
\* improved records counts exactly the accepted candidates.
C2_MergeAcceptIff ==
    pc = "merge_done" =>
        /\ \A i \in 1..Len(MergeIn) :
              Cardinality(UpdatesFor(i)) = 1 =>
                  LET cand == get_fulltext(TheUpdate(i))
                      old == get_fulltext(MergeIn[i])
                  IN IF GateHolds(old, cand, args.min_gain)
                     THEN MergeOut[i].fullText = Some(cand)
                     ELSE MergeOut[i].fullText = MergeIn[i].fullText
        /\ (\A i \in 1..Len(MergeIn) : Cardinality(UpdatesFor(i)) <= 1) =>
              mem.improved =
                  Cardinality({i \in 1..Len(MergeIn) :
                      /\ UpdatesFor(i) # {}
                      /\ GateHolds(get_fulltext(MergeIn[i]),
                                   get_fulltext(TheUpdate(i)), args.min_gain)})

\* a finished merge with min_gain = 1 that accepted a candidate for a record
\* whose old text was empty, and one that refused a candidate without words
C2_Witness ==
    /\ pc = "merge_done" /\ args.min_gain = 1
    /\ \E i \in 1..Len(MergeIn) :
          /\ Cardinality(UpdatesFor(i)) = 1
          /\ get_fulltext(MergeIn[i]) = <<>>
          /\ word_count(get_fulltext(TheUpdate(i))) > 0
          /\ MergeOut[i].fullText = Some(get_fulltext(TheUpdate(i)))

\* a finished merge with min_gain <= 0 that refused a non-empty candidate
\* without words
C2_WitnessZeroWords ==
    /\ pc = "merge_done" /\ args.min_gain <= 0
    /\ \E i \in 1..Len(MergeIn) :
          /\ Cardinality(UpdatesFor(i)) = 1
          /\ get_fulltext(TheUpdate(i)) # <<>>
          /\ word_count(get_fulltext(TheUpdate(i))) = 0
          /\ MergeOut[i].fullText = MergeIn[i].fullText
          /\ mem.improved = 0

AuxOf(p) == <<p.expandedUrl, p.docPlatform, p.scrapeTimestampDetail>>

Accepted(i) ==
    /\ Cardinality(UpdatesFor(i)) = 1
    /\ GateHolds(get_fulltext(MergeIn[i]), get_fulltext(TheUpdate(i)), args.min_gain)

\* C6 as stated: after an accepted update the base record's expandedUrl,
\* docPlatform and scrapeTimestampDetail equal those of the update record.
C6_AuxEqualUpdate ==
    pc = "merge_done" =>
        \A i \in 1..Len(MergeIn) :
            Accepted(i) => AuxOf(MergeOut[i]) = AuxOf(TheUpdate(i))

\* C6 amended: after an accepted update, scrapeTimestampDetail equals the
\* update's when the update has that key, expandedUrl and docPlatform equal
\* the update's when the update has a non-empty value for them, and a field
\* the update lacks keeps the base record's value.
C6_AuxCopiedIfPresent ==
    pc = "merge_done" =>
        \A i \in 1..Len(MergeIn) :
            Accepted(i) =>
                LET u == TheUpdate(i)
                    b == MergeIn[i]
                    o == MergeOut[i]
                IN /\ o.scrapeTimestampDetail =
                        IF IsSome(u.scrapeTimestampDetail)
                        THEN u.scrapeTimestampDetail ELSE b.scrapeTimestampDetail
                   /\ o.expandedUrl =
                        IF IsSome(u.expandedUrl) /\ Get(u.expandedUrl) # ""
                        THEN u.expandedUrl ELSE b.expandedUrl
                   /\ o.docPlatform =
                        IF IsSome(u.docPlatform) /\ Get(u.docPlatform) # ""
                        THEN u.docPlatform ELSE b.docPlatform

\* a finished merge that accepted an update carrying a docPlatform for a
\* record that had another one
C6_Witness ==
    /\ pc = "merge_done"
    /\ \E i \in 1..Len(MergeIn) :
          /\ Accepted(i)
          /\ IsSome(TheUpdate(i).docPlatform)
          /\ IsSome(MergeIn[i].docPlatform)
          /\ MergeIn[i].docPlatform # TheUpdate(i).docPlatform
          /\ MergeOut[i].docPlatform = TheUpdate(i).docPlatform

----------------------------------------------------------------------------
(* URLs.  A URL is kept as the record urlparse() makes of it; Unparse gives *)
(* the string.                                                              *)

Url(netloc, path) == [netloc |-> netloc, path |-> path]

Unparse(u) == <<"h", "t", "t", "p", "s", ":", "/", "/">> \o u.netloc \o u.path

U_SHORT == Url(<<"b", "i", "t", ".", "l", "y">>, <<"/", "a", "b", "c">>)

U_GDOC == Url(<<"d", "o", "c", "s", ".", "g", "o", "o", "g", "l", "e", ".", "c", "o", "m">>, <<"/", "d", "o", "c", "u", "m", "e", "n", "t", "/", "d", "/", "A", "1", "/", "e", "d", "i", "t">>)

U_NOTION == Url(<<"n", "o", "t", "i", "o", "n", ".", "s", "o">>, <<"/", "x", "y", "z">>)

U_SITE == Url(<<"e", "x", "a", "m", "p", "l", "e", ".", "c", "o", "m">>, <<"/", "x">>)

Urls == {U_SHORT, U_GDOC, U_NOTION, U_SITE}

(* src/rets/rescrape_short_profiles.py *)

\* lines 19-66; url is an optional URL
classify_platform(url) ==
    IF ~IsSome(url) THEN "unknown"
    ELSE LET netloc == lower(Get(url).netloc)
             path == lower(Get(url).path)
             has(x) == Contains(netloc, x)
         IN IF has(<<"b", "i", "t", ".", "l", "y">>) \/ has(<<"t", "i", "n", "y", "u", "r", "l", ".", "c", "o", "m">>) THEN "shortener"
            ELSE IF has(<<"d", "o", "c", "s", ".", "g", "o", "o", "g", "l", "e", ".", "c", "o", "m">>)
                 THEN IF Contains(path, <<"/", "d", "o", "c", "u", "m", "e", "n", "t", "/">>) THEN "google_docs"
                      ELSE IF Contains(path, <<"/", "p", "r", "e", "s", "e", "n", "t", "a", "t", "i", "o", "n", "/">>) THEN "google_slides"
                      ELSE "google_docs_other"
            ELSE IF has(<<"d", "r", "i", "v", "e", ".", "g", "o", "o", "g", "l", "e", ".", "c", "o", "m">>) THEN "google_drive_file"
            ELSE IF has(<<"n", "o", "t", "i", "o", "n", ".", "s", "o">>) \/ has(<<"n", "o", "t", "i", "o", "n", ".", "s", "i", "t", "e">>) THEN "notion"
            ELSE IF has(<<"d", "r", "o", "p", "b", "o", "x", ".", "c", "o", "m">>) \/ has(<<"p", "a", "p", "e", "r", ".", "d", "r", "o", "p", "b", "o", "x", ".", "c", "o", "m">>)
                 THEN IF has(<<"p", "a", "p", "e", "r", ".", "d", "r", "o", "p", "b", "o", "x", ".", "c", "o", "m">>) \/ Contains(path, <<"/", "p", "a", "p", "e", "r", "/">>)
                      THEN "dropbox_paper" ELSE "dropbox_file"
            ELSE IF has(<<"p", "r", "o", "t", "o", "n", ".", "m", "e">>) THEN "proton_drive"
            ELSE IF has(<<"y", "a", "n", "d", "e", "x", ".", "c", "o", "m">>) \/ has(<<"y", "a", "n", "d", "e", "x", ".", "r", "u">>) THEN "yandex_disk"
            ELSE IF has(<<"c", "o", "d", "a", ".", "i", "o">>) THEN "coda"
            ELSE IF has(<<"c", "u", "t", "i", "e", "s", ".", "a", "p", "p">>) THEN "cuties_app"
            ELSE IF has(<<"d", "a", "t", "e", "f", "i", "r", "e", "f", "l", "y", ".", "c", "o", "m">>) THEN "datefirefly"
            ELSE IF has(<<"c", "a", "r", "r", "d", ".", "c", "o">>) THEN "carrd"
            ELSE IF has(<<"t", "w", "i", "t", "t", "e", "r", ".", "c", "o", "m">>) \/ has(<<"x", ".", "c", "o", "m">>) THEN "twitter"
            ELSE IF has(<<"y", "o", "u", "t", "u", "b", "e", ".", "c", "o", "m">>) \/ has(<<"y", "o", "u", "t", "u", ".", "b", "e">>) THEN "youtube"
            ELSE "custom_site"

\* re.search(r"/document/d/([^/]+)/", doc_url) finds a document id
HasDocId(doc_url) ==
    LET s == Unparse(doc_url)
        pre == <<"/", "d", "o", "c", "u", "m", "e", "n", "t", "/", "d", "/">>
    IN \E i \in 1..Len(s), j \in 1..Len(s) :
          /\ i + Len(pre) <= j - 1
          /\ SubSeq(s, i, i + Len(pre) - 1) = pre
          /\ \A k \in (i + Len(pre))..(j - 1) : s[k] # "/"
          /\ s[j] = "/"

\* lines 112-120: the phrases that make a short text final; "~" stands for
\* each of the three mis-encoded characters of the third phrase
IntentionalPhrases ==
    {<<"n", "o", "t", " ", "c", "u", "r", "r", "e", "n", "t", "l", "y", " ", "l", "o", "o", "k", "i", "n", "g">>,
     <<"n", "o", " ", "l", "o", "n", "g", "e", "r", " ", "s", "e", "e", "k", "i", "n", "g">>,
     <<"i", "~", "~", "~", "v", "e", " ", "m", "e", "t", " ", "s", "o", "m", "e", "o", "n", "e">>,
     <<"i", "'", "m", " ", "s", "e", "e", "i", "n", "g", " ", "s", "o", "m", "e", "o", "n", "e">>}

IsIntentional(old_text) ==
    \E phrase \in IntentionalPhrases : Contains(lower(old_text), lower(phrase))

----------------------------------------------------------------------------
(* Fetch and rescrape passes: common definitions *)

MaxWords == 2

\* the first length for which rescrape_short_profiles_js accepts a page
JS_MIN_WORDS == 10

\* a text of n words
RECURSIVE Words(_)
Words(n) ==
    IF n = 0 THEN <<>>
    ELSE IF n = 1 THEN <<"a">> ELSE Words(n - 1) \o <<" ", "a">>

\* the texts a remote page or document export is seen to have
PageTexts == {Words(n) : n \in 0..MaxWords} \cup {Words(JS_MIN_WORDS)}

INTENTIONAL_TEXT == <<"N", "o", " ", "l", "o", "n", "g", "e", "r", " ", "s", "e", "e", "k", "i", "n", "g">>

\* a profile record of the stores the passes read and write
PRec(id, url, text, expanded, accessible, ts) ==
    [id |-> id, profileUrl |-> url, fullText |-> text, expandedUrl |-> expanded,
     docPlatform |-> None, docAccessible |-> accessible,
     scrapeTimestampDetail |-> ts]

\* the files of the passes
F_DIRECTORY == "data/directory/latest.json"

F_PROFILES == "data/processed/profiles.json"

F_SKIPPED == "data/processed/profiles_skipped.json"

F_LATEST_PROFILES == "data/latest/profiles.json"

F_LATEST_SKIPPED == "data/latest/profiles_skipped.json"

F_OUT == "out.json"

PassFiles ==
    {F_DIRECTORY, F_PROFILES, F_SKIPPED, F_LATEST_PROFILES, F_LATEST_SKIPPED, F_OUT}

NoArgs == [prog |-> "none"]

NoMem == [idx |-> 0]

\* the one-based index of the row a running pass is at, and the row
Row == mem.profiles[mem.idx]

InLoop(p) == pc = p /\ mem.idx <= Len(mem.profiles)

\* a program may be started when none is running
Idle == pc = "idle"

----------------------------------------------------------------------------
(* src/rets/scrape_profiles.py *)

\* src/utils/io.py lines 5-17: data/latest becomes a copy of the processed
\* directory of this stamp
ensure_snapshot_paths(d) ==
    [d EXCEPT ![F_LATEST_PROFILES] = d[F_PROFILES],
              ![F_LATEST_SKIPPED] = d[F_SKIPPED]]

\* lines 81-93, data/directory/latest.json missing
ScrapeAbort ==
    /\ Idle
    /\ ~IsSome(disk[F_DIRECTORY])
    /\ disk' = ensure_snapshot_paths(disk)
    /\ pc' = "scrape_aborted"
    /\ args' = [prog |-> "scrape_profiles"]
    /\ UNCHANGED <<mem, now>>

\* lines 81-104
ScrapeStart ==
    /\ Idle
    /\ IsSome(disk[F_DIRECTORY])
    /\ disk' = ensure_snapshot_paths(disk)
    /\ args' = [prog |-> "scrape_profiles"]
    /\ mem' = [profiles |-> Get(disk[F_DIRECTORY]), idx |-> 1,
               parsed |-> <<>>, skipped |-> <<>>]
    /\ pc' = "scrape_loop"
    /\ UNCHANGED now

ScrapeDefault_ResetsDetails(row) ==
    [row EXCEPT !.fullText = None, !.docAccessible = Some(FALSE),
                !.scrapeTimestampDetail = Some(0)]

\* lines 108-117
ScrapeDefault(row) ==
    [row EXCEPT !.docAccessible = Some(FALSE), !.scrapeTimestampDetail = Some(0)]

ScrapeSkip_Nothing(profile, reason) == <<>>

\* the SkipRecords a failed row appends: lines 121-127, 146-153, 161-168,
\* 184-191, 200-207
ScrapeSkip(profile, reason) ==
    <<[id |-> profile.id, url |-> profile.profileUrl, reason |-> reason]>>

\* a row that fails with the given reason: the SkipRecord and the profile
ScrapeFail(reason) ==
    /\ mem' = [mem EXCEPT
                 !.skipped = @ \o ScrapeSkip(ScrapeDefault(Row), reason),
                 !.parsed = Append(@, ScrapeDefault(Row)),
                 !.idx = @ + 1]
    /\ UNCHANGED <<pc, disk, args, now>>

\* lines 119-129
ScrapeMissingUrl ==
    /\ InLoop("scrape_loop")
    /\ ~IsSome(Row.profileUrl)
    /\ ScrapeFail("missing_profileUrl")

\* lines 135-156
ScrapeRequestException ==
    /\ InLoop("scrape_loop")
    /\ IsSome(Row.profileUrl)
    /\ ScrapeFail("request_exception")

\* lines 158-170
ScrapeHttpStatus ==
    /\ InLoop("scrape_loop")
    /\ IsSome(Row.profileUrl)
    /\ ScrapeFail("http_status")

\* lines 180-193
ScrapeRawWriteError ==
    /\ InLoop("scrape_loop")
    /\ IsSome(Row.profileUrl)
    /\ ScrapeFail("raw_write_error")

\* lines 196-209
ScrapeParseError ==
    /\ InLoop("scrape_loop")
    /\ IsSome(Row.profileUrl)
    /\ ScrapeFail("parse_error")

\* lines 211-215
ScrapeAttach(profile, full_text, t) ==
    [profile EXCEPT
        !.fullText = IF full_text # <<>> THEN Some(full_text) ELSE @,
        !.scrapeTimestampDetail = Some(t),
        !.docAccessible = Some(TRUE)]

\* lines 135-217, the fetch and the extraction succeed
ScrapeSuccess ==
    /\ InLoop("scrape_loop")
    /\ IsSome(Row.profileUrl)
    /\ \E full_text \in PageTexts :
          mem' = [mem EXCEPT
                    !.parsed = Append(@, ScrapeAttach(ScrapeDefault(Row), full_text, now)),
                    !.idx = @ + 1]
    /\ UNCHANGED <<pc, disk, args, now>>

\* lines 219-222
ScrapeWrite ==
    /\ pc = "scrape_loop" /\ mem.idx > Len(mem.profiles)
    /\ disk' = [disk EXCEPT
                  ![F_PROFILES] = Some(mem.parsed),
                  ![F_SKIPPED] = IF mem.skipped # <<>> THEN Some(mem.skipped) ELSE @]
    /\ pc' = "scrape_done"
    /\ UNCHANGED <<args, mem, now>>

NextScrape ==
    \/ ScrapeAbort \/ ScrapeStart \/ ScrapeMissingUrl \/ ScrapeRequestException
    \/ ScrapeHttpStatus \/ ScrapeRawWriteError \/ ScrapeParseError
    \/ ScrapeSuccess \/ ScrapeWrite

----------------------------------------------------------------------------
(* src/rets/extract_longform_profiles.py *)

\* lines 129-135
FetchStart ==
    /\ Idle
    /\ \E inp \in {F_DIRECTORY} :
          /\ IsSome(disk[inp])
          /\ args' = [prog |-> "process_profiles", input_json |-> inp,
                      output_json |-> F_OUT]
          /\ mem' = [profiles |-> Get(disk[inp]), idx |-> 1, updated_count |-> 0]
    /\ pc' = "fetch_loop"
    /\ UNCHANGED <<disk, now>>

\* lines 141-143
FetchNoUrl ==
    /\ InLoop("fetch_loop")
    /\ ~IsSome(Row.profileUrl)
    /\ mem' = [mem EXCEPT !.idx = @ + 1]
    /\ UNCHANGED <<pc, disk, args, now>>

\* lines 147-151: fetch_profile_text raises
FetchError ==
    /\ InLoop("fetch_loop")
    /\ IsSome(Row.profileUrl)
    /\ mem' = [mem EXCEPT !.idx = @ + 1]
    /\ UNCHANGED <<pc, disk, args, now>>

\* lines 153-161
StoreText(profile, full_text, t) ==
    [profile EXCEPT !.fullText = Some(full_text), !.scrapeTimestampDetail = Some(t)]

\* lines 147-166: fetch_profile_text returns a text
FetchOk ==
    /\ InLoop("fetch_loop")
    /\ IsSome(Row.profileUrl)
    /\ \E full_text \in PageTexts :
          mem' = [mem EXCEPT !.profiles[mem.idx] = StoreText(@, full_text, now),
                             !.updated_count = @ + 1,
                             !.idx = @ + 1]
    /\ UNCHANGED <<pc, disk, args, now>>

\* lines 168-172
FetchWrite ==
    /\ pc = "fetch_loop" /\ mem.idx > Len(mem.profiles)
    /\ disk' = [disk EXCEPT ![args.output_json] = Some(mem.profiles)]
    /\ pc' = "fetch_done"
    /\ UNCHANGED <<args, mem, now>>

NextFetch == FetchStart \/ FetchNoUrl \/ FetchError \/ FetchOk \/ FetchWrite
----------------------------------------------------------------------------
(* src/rets/extract_longform_profiles_js.py *)

\* lines 68-79
JsStart ==
    /\ Idle
    /\ IsSome(disk[F_DIRECTORY])
    /\ args' = [prog |-> "process_profiles_js", input_json |-> F_DIRECTORY,
                output_json |-> F_OUT]
    /\ mem' = [profiles |-> Get(disk[F_DIRECTORY]), idx |-> 1, updated |-> 0]
    /\ pc' = "js_loop"
    /\ UNCHANGED <<disk, now>>

\* lines 85-87
JsNoUrl ==
    /\ InLoop("js_loop")
    /\ ~IsSome(Row.profileUrl)
    /\ mem' = [mem EXCEPT !.idx = @ + 1]
    /\ UNCHANGED <<pc, disk, args, now>>

\* lines 91-100: fetch_page_text raises (both navigations failed, or the
\* body could not be read)
JsError ==
    /\ InLoop("js_loop")
    /\ IsSome(Row.profileUrl)
    /\ mem' = [mem EXCEPT !.idx = @ + 1]
    /\ UNCHANGED <<pc, disk, args, now>>

\* lines 91-118: fetch_page_text returns the cleaned body text
JsOk ==
    /\ InLoop("js_loop")
    /\ IsSome(Row.profileUrl)
    /\ \E full_text \in PageTexts :
          mem' = [mem EXCEPT !.profiles[mem.idx] = StoreText(@, full_text, now),
                             !.updated = @ + 1,
                             !.idx = @ + 1]
    /\ UNCHANGED <<pc, disk, args, now>>

\* lines 120-126
JsWrite ==
    /\ pc = "js_loop" /\ mem.idx > Len(mem.profiles)
    /\ disk' = [disk EXCEPT ![args.output_json] = Some(mem.profiles)]
    /\ pc' = "js_done"
    /\ UNCHANGED <<args, mem, now>>

NextJs == JsStart \/ JsNoUrl \/ JsError \/ JsOk \/ JsWrite

----------------------------------------------------------------------------
(* src/rets/rescrape_short_profiles_js.py *)

\* (details.get("fullText") or "").strip()
OldText(profile) ==
    strip(IF IsSome(profile.fullText) THEN Get(profile.fullText) ELSE <<>>)

\* line 109
JsrAccepts(old_wc, new_wc) == new_wc > old_wc /\ new_wc >= JS_MIN_WORDS

\* lines 108-115
JsrMerge(profile, new_text) ==
    IF JsrAccepts(word_count(OldText(profile)), word_count(new_text))
    THEN [profile EXCEPT !.fullText = Some(new_text)]
    ELSE profile

\* lines 74-82
JsrStart ==
    /\ Idle
    /\ IsSome(disk[F_DIRECTORY])
    /\ args' = [prog |-> "rescrape_short_profiles_js", input_json |-> F_DIRECTORY,
                output_json |-> F_OUT]
    /\ mem' = [profiles |-> Get(disk[F_DIRECTORY]), idx |-> 1, improved |-> 0]
    /\ pc' = "jsr_loop"
    /\ UNCHANGED <<disk, now>>

\* lines 93-95
JsrNoUrl ==
    /\ InLoop("jsr_loop")
    /\ ~IsSome(Row.profileUrl)
    /\ mem' = [mem EXCEPT !.idx = @ + 1]
    /\ UNCHANGED <<pc, disk, args, now>>

\* lines 98-117, the page is read and the gate of line 109 holds
JsrImproved ==
    /\ InLoop("jsr_loop")
    /\ IsSome(Row.profileUrl)
    /\ \E new_text \in PageTexts :
          /\ JsrAccepts(word_count(OldText(Row)), word_count(new_text))
          /\ mem' = [mem EXCEPT !.profiles[mem.idx] = JsrMerge(@, new_text),
                                !.improved = @ + 1,
                                !.idx = @ + 1]
    /\ UNCHANGED <<pc, disk, args, now>>

\* lines 98-117, the gate of line 109 fails; the new text is "" when both
\* navigations failed or the body could not be read (fetch_page_text lines
\* 29-47)
JsrKept ==
    /\ InLoop("jsr_loop")
    /\ IsSome(Row.profileUrl)
    /\ \E new_text \in PageTexts :
          /\ ~JsrAccepts(word_count(OldText(Row)), word_count(new_text))
          /\ mem' = [mem EXCEPT !.profiles[mem.idx] = JsrMerge(@, new_text),
                                !.idx = @ + 1]
    /\ UNCHANGED <<pc, disk, args, now>>

\* lines 119-126
JsrWrite ==
    /\ pc = "jsr_loop" /\ mem.idx > Len(mem.profiles)
    /\ disk' = [disk EXCEPT ![args.output_json] = Some(mem.profiles)]
    /\ pc' = "jsr_done"
    /\ UNCHANGED <<args, mem, now>>

NextJsr == JsrStart \/ JsrNoUrl \/ JsrImproved \/ JsrKept \/ JsrWrite

----------------------------------------------------------------------------
(* src/rets/rescrape_short_profiles.py *)

\* lines 69-78; resp is the final URL of the redirects, None when the request
\* raised
expand_url(url, resp) == IF IsSome(resp) THEN resp ELSE url

\* lines 81-98 without the transport error of line 94, which raises; resp is
\* the response of the export endpoint
extract_google_doc_text(doc_url, resp) ==
    IF ~IsSome(doc_url) \/ ~HasDocId(Get(doc_url)) THEN None
    ELSE IF resp.status_code # 200 THEN None
    ELSE IF strip(resp.text) # <<>> THEN Some(strip(resp.text)) ELSE None

\* lines 123-129: the URL and the platform after the expansion of a shortener
FinalUrl(profile, exp) ==
    IF classify_platform(profile.profileUrl) = "shortener"
    THEN expand_url(profile.profileUrl, exp) ELSE profile.profileUrl

\* line 128
Expanded(profile, exp) ==
    IF classify_platform(profile.profileUrl) = "shortener"
    THEN [profile EXCEPT !.expandedUrl = FinalUrl(profile, exp)] ELSE profile

\* the export endpoint is requested (line 94)
RequestsExport(profile, exp) ==
    /\ classify_platform(FinalUrl(profile, exp)) = "google_docs"
    /\ HasDocId(Get(FinalUrl(profile, exp)))

\* lines 132-139
NewText(profile, exp, resp) ==
    IF classify_platform(FinalUrl(profile, exp)) = "google_docs"
    THEN extract_google_doc_text(FinalUrl(profile, exp), resp) ELSE None

\* line 146
RescrapeAccepts(old_text, new_text) ==
    /\ IsSome(new_text) /\ Get(new_text) # <<>> /\ strip(Get(new_text)) # <<>>
    /\ split_len(Get(new_text)) > split_len(old_text)

\* lines 101-152, after the phrase test; returns the profile and the reason
rescrape_profile(profile, exp, resp) ==
    LET p1 == Expanded(profile, exp)
        new_text == NewText(profile, exp, resp)
        reason == IF IsSome(new_text) THEN "google_docs_export" ELSE "no_change"
    IN IF RescrapeAccepts(OldText(profile), new_text)
       THEN <<[p1 EXCEPT !.fullText = new_text], reason>>
       ELSE <<p1, reason>>

Reasons == {"no_change", "short_but_intentional", "google_docs_export"}

\* responses of the redirect chain of a shortener
Expansions == {None} \cup {Some(u) : u \in Urls \ {U_SHORT}}

\* responses of the export endpoint
ExportResponses ==
    {[status_code |-> 200, text |-> t] : t \in PageTexts}
        \cup {[status_code |-> 403, text |-> <<>>]}

\* line 156
RescrapeStart ==
    /\ Idle
    /\ IsSome(disk[F_DIRECTORY])
    /\ args' = [prog |-> "rescrape_short_profiles", input_json |-> F_DIRECTORY,
                output_json |-> F_OUT]
    /\ mem' = [profiles |-> Get(disk[F_DIRECTORY]), idx |-> 1, updated |-> 0,
               reasons |-> [r \in Reasons |-> 0]]
    /\ pc' = "rescrape_loop"
    /\ UNCHANGED <<disk, now>>

\* lines 162-167 with rescrape_profile lines 112-121
RescrapeIntentional ==
    /\ InLoop("rescrape_loop")
    /\ IsIntentional(OldText(Row))
    /\ mem' = [mem EXCEPT !.reasons["short_but_intentional"] = @ + 1,
                          !.idx = @ + 1]
    /\ UNCHANGED <<pc, disk, args, now>>

\* lines 162-167: the row with the profile and the reason rescrape_profile
\* returned
RescrapeDone(r) ==
    mem' = [mem EXCEPT
              !.profiles[mem.idx] = r[1],
              !.reasons[r[2]] = @ + 1,
              !.updated = IF r[2] = "google_docs_export" THEN @ + 1 ELSE @,
              !.idx = @ + 1]

\* lines 162-167, the gate of line 146 holds
RescrapeImproved ==
    /\ InLoop("rescrape_loop")
    /\ ~IsIntentional(OldText(Row))
    /\ \E exp \in Expansions, resp \in ExportResponses :
          /\ RescrapeAccepts(OldText(Row), NewText(Row, exp, resp))
          /\ RescrapeDone(rescrape_profile(Row, exp, resp))
    /\ UNCHANGED <<pc, disk, args, now>>

\* lines 162-167, the gate of line 146 fails
RescrapeNoChange ==
    /\ InLoop("rescrape_loop")
    /\ ~IsIntentional(OldText(Row))
    /\ \E exp \in Expansions, resp \in ExportResponses :
          /\ ~RescrapeAccepts(OldText(Row), NewText(Row, exp, resp))
          /\ RescrapeDone(rescrape_profile(Row, exp, resp))
    /\ UNCHANGED <<pc, disk, args, now>>

\* the request of line 94 raises: nothing catches it in rescrape_profile or in
\* main, and the program ends with a traceback before line 169
RescrapeCrash ==
    /\ InLoop("rescrape_loop")
    /\ ~IsIntentional(OldText(Row))
    /\ \E exp \in Expansions :
          /\ RequestsExport(Row, exp)
          /\ mem' = [mem EXCEPT !.profiles[mem.idx] = Expanded(@, exp)]
    /\ pc' = "rescrape_crashed"
    /\ UNCHANGED <<disk, args, now>>

\* lines 169-172
RescrapeWrite ==
    /\ pc = "rescrape_loop" /\ mem.idx > Len(mem.profiles)
    /\ disk' = [disk EXCEPT ![args.output_json] = Some(mem.profiles)]
    /\ pc' = "rescrape_done"
    /\ UNCHANGED <<args, mem, now>>

NextRescrape ==
    \/ RescrapeStart \/ RescrapeIntentional \/ RescrapeImproved
    \/ RescrapeNoChange \/ RescrapeCrash \/ RescrapeWrite

----------------------------------------------------------------------------
(* The passes, each run once over a store *)

PassRow1 ==
    {PRec("usr_1", url, text, None, None, Some(0)) :
        url \in {None} \cup {Some(u) : u \in Urls},
        text \in {None, Some(Words(1)), Some(Words(2)), Some(INTENTIONAL_TEXT)}}

PassRow2 == PRec("usr_2", Some(U_GDOC), Some(Words(1)), None, None, Some(0))

PassStores == {<<r, PassRow2>> : r \in PassRow1}

InitPasses ==
    /\ pc = "idle"
    /\ \E st \in {None} \cup {Some(x) : x \in PassStores} :
          disk = [f \in PassFiles |-> IF f = F_DIRECTORY THEN st ELSE None]
    /\ args = NoArgs
    /\ mem = NoMem
    /\ now = 1

NextPasses == NextScrape \/ NextFetch \/ NextJs \/ NextJsr \/ NextRescrape

SpecPasses == InitPasses /\ [][NextPasses]_vars

----------------------------------------------------------------------------
(* Claims about one pass over a store *)

PassIn == Get(disk[F_DIRECTORY])

PassDone == {"scrape_done", "fetch_done", "js_done", "jsr_done", "rescrape_done"}

\* the file a pass writes its records to
PassOutFile == IF args.prog = "scrape_profiles" THEN F_PROFILES ELSE F_OUT

PassOut == Get(disk[PassOutFile])

TextOf(p) == IF IsSome(p.fullText) THEN Get(p.fullText) ELSE <<>>

\* C3: the word count of the fullText stored for a record never decreases in a
\* pass, and a non-empty fullText is replaced only by a text with strictly
\* more words.
C3_WordCountNeverDecreases ==
    pc \in PassDone =>
        \A i \in 1..Len(PassIn) :
            /\ word_count(TextOf(PassOut[i])) >= word_count(TextOf(PassIn[i]))
            /\ (TextOf(PassIn[i]) # <<>> /\ PassOut[i].fullText # PassIn[i].fullText)
                  => word_count(TextOf(PassOut[i])) > word_count(TextOf(PassIn[i]))

\* C5: a row of rescrape-short for which rescrape_profile had a candidate text
\* and did not store it is left unchanged in every field.
C5_RejectLeavesUnchanged ==
    (/\ pc \in {"rescrape_loop", "rescrape_done"}
     /\ mem.reasons["google_docs_export"] = mem.idx - 1) =>
        \A i \in 1..(mem.idx - 1) :
            mem.profiles[i].fullText = PassIn[i].fullText
                => mem.profiles[i] = PassIn[i]

\* the steps in which the extraction of the current row fails: a missing URL,
\* a transport error, an HTTP error status, a raw write error, a parse error,
\* a failed navigation (the new text is ""), a failed shortener expansion or
\* export
JsrFailedStep ==
    /\ InLoop("jsr_loop")
    /\ IsSome(Row.profileUrl)
    /\ mem' = [mem EXCEPT !.profiles[mem.idx] = JsrMerge(@, <<>>), !.idx = @ + 1]

RescrapeFailedStep ==
    /\ InLoop("rescrape_loop")
    /\ ~IsIntentional(OldText(Row))
    /\ \E exp \in Expansions :
          \/ /\ exp = None
             /\ classify_platform(Row.profileUrl) = "shortener"
             /\ \E resp \in ExportResponses :
                   RescrapeDone(rescrape_profile(Row, exp, resp))
          \/ RescrapeDone(rescrape_profile(Row, exp, [status_code |-> 403, text |-> <<>>]))

FailedStep ==
    \/ RescrapeCrash
    \/ ScrapeMissingUrl \/ ScrapeRequestException \/ ScrapeHttpStatus
    \/ ScrapeRawWriteError \/ ScrapeParseError
    \/ FetchNoUrl \/ FetchError \/ JsNoUrl \/ JsError \/ JsrNoUrl
    \/ JsrFailedStep \/ RescrapeFailedStep

\* the record a pass keeps for row i once the row is processed
Processed(m, i) == IF "parsed" \in DOMAIN m THEN m.parsed[i] ELSE m.profiles[i]

\* C7: a step of a pass in which the extraction of a row fails leaves the
\* fullText of that row as it was in the input of the pass.
C7_FailureKeepsFullText ==
    [][FailedStep =>
          /\ Processed(mem', mem.idx).fullText = PassIn[mem.idx].fullText
          /\ disk' = disk]_vars

\* a finished scrape_profiles pass with a skipped row whose non-empty fullText
\* is in the output
C7_Witness ==
    /\ pc = "scrape_done"
    /\ \E i \in 1..Len(PassIn) :
          /\ PassOut[i].docAccessible = Some(FALSE)
          /\ \E k \in 1..Len(mem.skipped) :
                /\ mem.skipped[k].id = PassIn[i].id
                /\ mem.skipped[k].reason = "http_status"
          /\ TextOf(PassIn[i]) # <<>>
          /\ PassOut[i].fullText = PassIn[i].fullText

\* a pass has ended without processing all rows and without writing its output
PassAborted ==
    /\ pc \in {"rescrape_crashed"}
    /\ mem.idx <= Len(mem.profiles)
    /\ ~IsSome(disk[PassOutFile])

\* C8: an extraction error on one row never aborts a pass.
C8_RowErrorNeverAborts == ~PassAborted

Successes(parsed) == {i \in 1..Len(parsed) : parsed[i].docAccessible = Some(TRUE)}

SkipsOf(skipped, id) == {k \in 1..Len(skipped) : skipped[k].id = id}

\* C9: at every point of a scrape_profiles pass the rows processed so far are
\* partitioned: a row is a success (docAccessible = true) without SkipRecord
\* or it is not a success and has exactly one SkipRecord; successes + skips
\* is the number of rows processed, which at the end of the pass is N.
C9_PassPartition ==
    pc \in {"scrape_loop", "scrape_done"} =>
        /\ Len(mem.parsed) = mem.idx - 1
        /\ pc = "scrape_done" => Len(mem.parsed) = Len(PassIn)
        /\ Cardinality(Successes(mem.parsed)) + Len(mem.skipped) = Len(mem.parsed)
        /\ \A i \in 1..Len(mem.parsed) :
              Cardinality(SkipsOf(mem.skipped, mem.parsed[i].id)) =
                  IF i \in Successes(mem.parsed) THEN 0 ELSE 1

\* a finished scrape_profiles pass with one success and one skipped row
C9_Witness ==
    /\ pc = "scrape_done"
    /\ Cardinality(Successes(mem.parsed)) = 1
    /\ Len(mem.skipped) = 1
    /\ Len(mem.parsed) = 2

----------------------------------------------------------------------------
(* Repeated runs: a finished program leaves the files on disk, time passes  *)
(* and a program is started again.                                         *)

DoneStates ==
    PassDone \cup {"scrape_aborted", "rescrape_crashed", "ingest_done", "ingest_aborted",
                   "move_exit_1", "move_dry_run", "move_done"}

Again ==
    /\ pc \in DoneStates
    /\ now < MaxClock
    /\ pc' = "idle"
    /\ now' = now + 1
    /\ args' = NoArgs
    /\ mem' = NoMem
    /\ UNCHANGED disk

\* the stores of the repeated scrape_profiles runs
ScrapeStores ==
    {<<PRec("usr_1", url, text, None, None, Some(0)), PassRow2>> :
        url \in {None, Some(U_SITE)}, text \in {None, Some(Words(1))}}

InitScrape ==
    /\ pc = "idle"
    /\ \E st \in {None} \cup {Some(x) : x \in ScrapeStores} :
          disk = [f \in PassFiles |-> IF f = F_DIRECTORY THEN st ELSE None]
    /\ args = NoArgs
    /\ mem = NoMem
    /\ now = 1

SpecScrape == InitScrape /\ [][NextScrape \/ Again]_vars

ProfilesFile(d) == IF IsSome(d[F_PROFILES]) THEN Get(d[F_PROFILES]) ELSE <<>>

\* C10: once the record of an id has docAccessible = true in the output of
\* scrape_profiles, it has docAccessible = true in the output of every later
\* pass.
C10_DocAccessibleSticky ==
    [][\A i \in 1..Len(ProfilesFile(disk)), j \in 1..Len(ProfilesFile(disk')) :
          (/\ ProfilesFile(disk)[i].docAccessible = Some(TRUE)
           /\ ProfilesFile(disk')[j].id = ProfilesFile(disk)[i].id)
              => ProfilesFile(disk')[j].docAccessible = Some(TRUE)]_vars

----------------------------------------------------------------------------
(* src/rets/scrape_directory.py *)

F_MASTER == "data/profiles_master.json"

F_SNAPSHOT == "data/directory/directory-YYYYMMDD-HHMMSS.json"

IngestFiles == {F_DIRECTORY, F_MASTER, F_SNAPSHOT}

\* rows of the directory table: the identity fields the id is made of
DirRow(name, url) == [name |-> name, profileUrl |-> url]

ROW_ANN == DirRow("Ann", Some(U_SITE))

ROW_BOB == DirRow("Bob", Some(U_GDOC))

\* a table row whose name cell has no link
ROW_CY == DirRow("Cy", None)

\* two rows whose digests collide, and a row whose digest is the perturbed
\* digest of theirs
ROW_DEE == DirRow("Dee", Some(U_SITE))

ROW_FAY == DirRow("Fay", Some(U_SITE))

ROW_EVE == DirRow("Eve", Some(U_NOTION))

\* the directory pages seen by the runs
DirectoryPages ==
    {<<ROW_ANN, ROW_BOB>>, <<ROW_BOB, ROW_ANN>>, <<ROW_CY>>, <<ROW_ANN, ROW_ANN>>}

\* lines 114-126: the profile of a table row
ParsedRow(row) ==
    [name |-> row.name, profileUrl |-> row.profileUrl, fullText |-> None,
     expandedUrl |-> None, docPlatform |-> None, docAccessible |-> None,
     scrapeTimestampDetail |-> Some(0)]

\* lines 34-133
parse_directory_rows(page) == [i \in 1..Len(page) |-> ParsedRow(page[i])]

\* hashlib.sha1(key).hexdigest()[:10] for the keys of the rows explored
Sha1Prefix(key) ==
    IF key = <<ROW_ANN.profileUrl, ROW_ANN.name>> THEN <<"0", "a", "1", "b", "2", "c", "3", "d", "4", "e">>
    ELSE IF key = <<ROW_BOB.profileUrl, ROW_BOB.name>> THEN <<"5", "f", "6", "a", "7", "b", "8", "c", "9", "d">>
    ELSE IF key = <<ROW_CY.profileUrl, ROW_CY.name>> THEN <<"c", "0", "f", "f", "e", "e", "1", "2", "3", "4">>
    ELSE IF key = <<ROW_EVE.profileUrl, ROW_EVE.name>> THEN <<"f", "f", "f", "f", "f", "f", "f", "f", "f", "1">>
    ELSE <<"f", "f", "f", "f", "f", "f", "f", "f", "f", "f">>

\* lines 135-156
make_profile_id(profile) ==
    <<"u", "s", "r", "_">> \o Sha1Prefix(<<profile.profileUrl, profile.name>>)

HexDigit(d) ==
    <<"0", "1", "2", "3", "4", "5", "6", "7", "8", "9", "a", "b", "c", "d", "e", "f">>[d + 1]

\* f"{counter:x}"
RECURSIVE Hex(_)
Hex(n) == IF n < 16 THEN <<HexDigit(n)>> ELSE Hex(n \div 16) \o <<HexDigit(n % 16)>>

\* lines 175-176: base_pid[:-len(suffix)] + suffix
Perturbed(base_pid, counter) ==
    LET suffix == Hex(counter)
    IN IF Len(suffix) >= Len(base_pid) THEN suffix
       ELSE SubSeq(base_pid, 1, Len(base_pid) - Len(suffix)) \o suffix

\* lines 174-177: the first id not in seen, starting with pid and then
\* replacing the tail of base_pid by the counter
RECURSIVE FreshId(_, _, _, _)
FreshId(pid, base_pid, counter, seen) ==
    IF pid \notin seen THEN pid
    ELSE FreshId(Perturbed(base_pid, counter), base_pid, counter + 1, seen)

\* lines 159-182: the ids of the profiles, in order
RECURSIVE AssignedIds(_, _)
AssignedIds(profiles, seen) ==
    IF profiles = <<>> THEN <<>>
    ELSE LET base_pid == make_profile_id(Head(profiles))
             pid == FreshId(base_pid, base_pid, 1, seen)
         IN <<pid>> \o AssignedIds(Tail(profiles), seen \cup {pid})

WithId(profile, pid) == [f \in DOMAIN profile \cup {"id"} |->
                            IF f = "id" THEN pid ELSE profile[f]]

assign_ids(profiles) ==
    [i \in 1..Len(profiles) |-> WithId(profiles[i], AssignedIds(profiles, {})[i])]

\* lines 185-217
save_profiles_to_json(d, profiles) ==
    [d EXCEPT ![F_SNAPSHOT] = Some(profiles),
              ![F_DIRECTORY] = Some(profiles),
              ![F_MASTER] = Some(profiles)]

\* lines 221-235
Ingest ==
    /\ Idle
    /\ \E page \in DirectoryPages :
          disk' = save_profiles_to_json(disk, assign_ids(parse_directory_rows(page)))
    /\ pc' = "ingest_done"
    /\ args' = [prog |-> "scrape_directory"]
    /\ UNCHANGED <<mem, now>>

\* lines 18-24 and 51-53: the request fails or the page has no table
IngestAbort ==
    /\ Idle
    /\ pc' = "ingest_aborted"
    /\ args' = [prog |-> "scrape_directory"]
    /\ UNCHANGED <<disk, mem, now>>

\* extract_longform_profiles.py lines 129-135, run on the master store in place
FetchMasterStart ==
    /\ Idle
    /\ IsSome(disk[F_MASTER])
    /\ args' = [prog |-> "process_profiles", input_json |-> F_MASTER,
                output_json |-> F_MASTER]
    /\ mem' = [profiles |-> Get(disk[F_MASTER]), idx |-> 1, updated_count |-> 0]
    /\ pc' = "fetch_loop"
    /\ UNCHANGED <<disk, now>>

InitIngest ==
    /\ pc = "idle"
    /\ disk = [f \in IngestFiles |-> None]
    /\ args = NoArgs
    /\ mem = NoMem
    /\ now = 1

NextIngest ==
    \/ Ingest \/ IngestAbort \/ FetchMasterStart \/ FetchNoUrl \/ FetchError
    \/ FetchOk \/ FetchWrite \/ Again

SpecIngest == InitIngest /\ [][NextIngest]_vars

MasterFile(d) == IF IsSome(d[F_MASTER]) THEN Get(d[F_MASTER]) ELSE <<>>

\* C4: a run of the directory ingestion keeps, for every id that is in the
\* master store before and after it, the non-empty fullText the master store
\* had for that id.
C4_IngestKeepsFullText ==
    [][(pc = "idle" /\ pc' = "ingest_done") =>
          \A i \in 1..Len(MasterFile(disk)), j \in 1..Len(MasterFile(disk')) :
              (/\ TextOf(MasterFile(disk)[i]) # <<>>
               /\ MasterFile(disk')[j].id = MasterFile(disk)[i].id)
                  => MasterFile(disk')[j].fullText = MasterFile(disk)[i].fullText]_vars

----------------------------------------------------------------------------
(* Claims about the timestamp of a pass                                     *)

\* C11: in a finished fetch or rescrape pass the scrapeTimestampDetail of a
\* record differs from the one in the input of the pass if and only if the
\* pass stored a new fullText for that record.
C11_TimestampIffAccepted ==
    pc \in PassDone =>
        \A i \in 1..Len(PassIn) :
            (PassOut[i].scrapeTimestampDetail # PassIn[i].scrapeTimestampDetail)
                <=> (PassOut[i].fullText # PassIn[i].fullText)

----------------------------------------------------------------------------
(* scripts/scrapingscripts/move_profile_to_bucket.py *)

F_ACTIVE == "data/active.json"

F_BUCKET == "data/buckets/closed.json"

F_REMAINING == "data/remaining.json"

TriageFiles == {F_ACTIVE, F_BUCKET, F_REMAINING}

\* lines 8-14: a missing file is the empty list
load_list(d, path) == IF IsSome(d[path]) THEN Get(d[path]) ELSE <<>>

\* lines 16-18
write_list(d, path, data) == [d EXCEPT ![path] = Some(data)]

\* lines 39-45: the index of the first record of source with the id, 0 when
\* there is none
MatchIndex(source, pid) ==
    IF \E i \in 1..Len(source) : source[i].id = pid
    THEN CHOOSE i \in 1..Len(source) :
            /\ source[i].id = pid
            /\ \A j \in 1..(i - 1) : source[j].id # pid
    ELSE 0

\* lines 40-45: every record but the first match, later records with the same
\* id included
Remaining(source, pid) ==
    LET m == MatchIndex(source, pid)
    IN IF m = 0 THEN source
       ELSE SubSeq(source, 1, m - 1) \o SubSeq(source, m + 1, Len(source))

\* line 52
InBucket(bucket, pid) == \E i \in 1..Len(bucket) : bucket[i].id = pid

Stamp_LeavesOpen(match, reason, t) == match

\* lines 55-58: a copy of the record with the three review fields
Stamp(match, reason, t) ==
    [f \in DOMAIN match \cup {"reviewStatus", "reviewReason", "reviewTimestamp"} |->
        IF f = "reviewStatus" THEN "closed"
        ELSE IF f = "reviewReason" THEN strip(reason)
        ELSE IF f = "reviewTimestamp" THEN t
        ELSE match[f]]

Bucketed_AlwaysAppends(bucket, match, pid, reason, t) ==
    Append(bucket, Stamp(match, reason, t))

\* lines 51-59: the bucket list after the duplicate test
Bucketed(bucket, match, pid, reason, t) ==
    IF InBucket(bucket, pid) THEN bucket
    ELSE Append(bucket, Stamp(match, reason, t))

\* line 62
out_path(a) == IF IsSome(a.out) THEN Get(a.out) ELSE a.source

DryRun_Never(a) == FALSE

\* line 68
DryRun(a) == a.dry_run

\* the profile ids of the triage runs
ID_A == <<"a">>

ID_B == <<"b">>

ID_C == <<"c">>

TRec(id, name) == [id |-> id, name |-> name]

\* the --id and --reason options as typed
MoveIds == {ID_A, <<" ">> \o ID_B, ID_C}

MoveReasons == {<<"a">>, <<"a", " ">>}

\* lines 24-31
MoveArgs ==
    [prog : {"move_profile_to_bucket"}, id : MoveIds, source : {F_ACTIVE},
     bucket : {F_BUCKET}, reason : MoveReasons,
     out : {None, Some(F_REMAINING)}, dry_run : BOOLEAN]

\* lines 33-45: the locals of main after the search
MoveLocals(d, a) ==
    LET source == load_list(d, a.source)
        pid == strip(a.id)
        m == MatchIndex(source, pid)
    IN [source |-> source, bucket |-> load_list(d, a.bucket), pid |-> pid,
        match |-> IF m = 0 THEN None ELSE Some(source[m]),
        remaining |-> Remaining(source, pid)]

\* lines 33-49: the id is not in the source, exit status 1
MoveNotFound ==
    /\ Idle
    /\ \E a \in MoveArgs :
          /\ ~IsSome(MoveLocals(disk, a).match)
          /\ args' = a
          /\ mem' = MoveLocals(disk, a)
    /\ pc' = "move_exit_1"
    /\ UNCHANGED <<disk, now>>

\* lines 51-59 on the locals
MoveStamped(m, a, t) ==
    [m EXCEPT !.bucket = Bucketed(@, Get(m.match), m.pid, a.reason, t)]

\* lines 33-70 with --dry-run
MoveDryRun ==
    /\ Idle
    /\ \E a \in MoveArgs :
          /\ IsSome(MoveLocals(disk, a).match)
          /\ DryRun(a)
          /\ args' = a
          /\ mem' = MoveStamped(MoveLocals(disk, a), a, now)
    /\ pc' = "move_dry_run"
    /\ UNCHANGED <<disk, now>>

\* lines 33-75
MoveDone ==
    /\ Idle
    /\ \E a \in MoveArgs :
          /\ IsSome(MoveLocals(disk, a).match)
          /\ ~DryRun(a)
          /\ args' = a
          /\ mem' = MoveStamped(MoveLocals(disk, a), a, now)
          /\ disk' = write_list(write_list(disk, a.bucket, mem'.bucket),
                                out_path(a), mem'.remaining)
    /\ pc' = "move_done"
    /\ UNCHANGED now

\* the stores of the triage runs: the active list may hold an id twice, the
\* bucket file may be missing; no id is in both
REC_ANN == TRec(ID_A, "Ann")

REC_AL == TRec(ID_A, "Al")

REC_BOB == TRec(ID_B, "Bob")

REC_CY == Stamp(TRec(ID_C, "Cy"), <<"a">>, 0)

TriageSources ==
    {None, Some(<<REC_ANN, REC_BOB>>), Some(<<REC_BOB, REC_ANN, REC_AL>>),
     Some(<<REC_ANN>>)}

TriageBuckets == {None, Some(<<>>), Some(<<REC_CY>>)}

InitTriage ==
    /\ pc = "idle"
    /\ \E s \in TriageSources, b \in TriageBuckets :
          disk = [f \in TriageFiles |->
                    IF f = F_ACTIVE THEN s ELSE IF f = F_BUCKET THEN b ELSE None]
    /\ args = NoArgs
    /\ mem = NoMem
    /\ now = 1

NextTriage == MoveNotFound \/ MoveDryRun \/ MoveDone \/ Again

SpecTriage == InitTriage /\ [][NextTriage]_vars

----------------------------------------------------------------------------
(* Claims about the triage move, stated on the step of a run: the files     *)
(* before the step are the old lists, the files after it the new ones.      *)

MoveStates == {"move_exit_1", "move_dry_run", "move_done"}

\* a run of move_profile_to_bucket that wrote its files
MoveWrote == pc = "idle" /\ pc' = "move_done"

OldSource == load_list(disk, args'.source)

OldBucket == load_list(disk, args'.bucket)

NewBucket == load_list(disk', args'.bucket)

\* the list without its m-th record
Without(list, m) == SubSeq(list, 1, m - 1) \o SubSeq(list, m + 1, Len(list))

IdsOf(list) == {list[i].id : i \in 1..Len(list)}

IdCount(list, id) == Cardinality({i \in 1..Len(list) : list[i].id = id})

\* the bucket is the old bucket plus one record, the only one with the id
AppendedOne(pid) ==
    /\ Len(NewBucket) = Len(OldBucket) + 1
    /\ SubSeq(NewBucket, 1, Len(OldBucket)) = OldBucket
    /\ NewBucket[Len(NewBucket)].id = pid
    /\ IdCount(NewBucket, pid) = 1

BucketUnique(d) ==
    \A id \in IdsOf(load_list(d, F_BUCKET)) : IdCount(load_list(d, F_BUCKET), id) = 1

\* C13: a move of an id the bucket already holds writes the source without
\* the (first) record with that id and leaves the bucket with exactly the
\* records it had; every step keeps a bucket of unique ids a bucket of unique
\* ids.
C13_CollisionKeepsBucket ==
    [][/\ (MoveWrote /\ InBucket(OldBucket, strip(args'.id))) =>
             /\ load_list(disk', out_path(args')) =
                    Without(OldSource, MatchIndex(OldSource, strip(args'.id)))
             /\ NewBucket = OldBucket
       /\ BucketUnique(disk) => BucketUnique(disk')]_vars

\* a finished move of an id the bucket held: the source lost a record and the
\* bucket has one record with the id
C13_Witness ==
    /\ pc = "move_done"
    /\ Len(mem.remaining) = Len(mem.source) - 1
    /\ load_list(disk, out_path(args)) = mem.remaining
    /\ ~IsSome(args.out)
    /\ IdCount(load_list(disk, F_BUCKET), mem.pid) = 1
    /\ load_list(disk, F_BUCKET)[Len(load_list(disk, F_BUCKET))].id # mem.pid
    /\ now > load_list(disk, F_BUCKET)[Len(load_list(disk, F_BUCKET))].reviewTimestamp

\* C14: no id is both in the bucket file and in the active source file.
C14_ClosedActiveDisjoint ==
    IdsOf(load_list(disk, F_ACTIVE)) \cap IdsOf(load_list(disk, F_BUCKET)) = {}

\* C15: a run with --dry-run leaves every file as it was.
C15_DryRunWritesNothing ==
    [][(pc' \in MoveStates /\ args'.dry_run) => disk' = disk]_vars

\* a finished dry run of an id that is in the source and in the bucket
C15_Witness ==
    /\ pc = "move_dry_run"
    /\ args.dry_run
    /\ IsSome(mem.match)
    /\ InBucket(load_list(disk, F_BUCKET), mem.pid)
    /\ InBucket(load_list(disk, F_ACTIVE), mem.pid)

----------------------------------------------------------------------------
(* The record set of a store over the passes and the merge                  *)

\* a merge run with the default --min-gain (merge_fulltext_by_id.py line 28)
InitStoreMerge ==
    /\ pc = "merge_start"
    /\ \E b \in MergeBases, u \in MergeUpdates :
          disk = [f \in MergeFiles |->
                    IF f = "base" THEN Some(b)
                    ELSE IF f = "updates" THEN Some(u) ELSE None]
    /\ args = [base_json |-> "base", updates_json |-> "updates",
               output_json |-> "out", min_gain |-> 1]
    /\ mem = [base |-> <<>>, updates |-> <<>>, k |-> 1,
              touched |-> 0, improved |-> 0, missing |-> 0]
    /\ now = 0

SpecStore == (InitPasses \/ InitStoreMerge) /\ [][NextPasses \/ NextMerge]_vars

\* the ids of the records of a list, in order
IdSeq(list) == [i \in 1..Len(list) |-> list[i].id]

\* C16: the output of a finished fetch, rescrape or merge pass has one record
\* for each record of its input, with the same id and in the same order.
C16_RecordSetPreserved ==
    /\ pc \in PassDone => IdSeq(PassOut) = IdSeq(PassIn)
    /\ pc = "merge_done" => IdSeq(MergeOut) = IdSeq(MergeIn)

\* a finished merge that stored an update and had an update whose id is not
\* in the base
C16_Witness ==
    /\ pc = "merge_done"
    /\ mem.missing = 1 /\ mem.improved = 1
    /\ \E k \in 1..Len(MergeUps) : MergeUps[k].id \notin IdsOf(MergeIn)
    /\ Len(MergeOut) = 2

----------------------------------------------------------------------------
(* Claims about the expansion of shortener URLs by rescrape-short           *)

\* C19: in the output of a finished rescrape-short pass a record whose
\* profileUrl classifies as shortener has the URL the redirects ended at as
\* expandedUrl and the platform of that URL as docPlatform.
C19_ShortenerScenario ==
    pc = "rescrape_done" =>
        \A i \in 1..Len(PassIn) :
            classify_platform(PassIn[i].profileUrl) = "shortener" =>
                /\ IsSome(PassOut[i].expandedUrl)
                /\ PassOut[i].docPlatform =
                       Some(classify_platform(PassOut[i].expandedUrl))

\* C20: a record processed by rescrape-short has an expandedUrl only if its
\* profileUrl classifies as shortener, and the expandedUrl is never the
\* shortener URL itself.
C20_ExpandedOnlyWhenResolved ==
    pc \in {"rescrape_loop", "rescrape_done", "rescrape_crashed"} =>
        \A i \in 1..Len(mem.profiles) :
            IsSome(mem.profiles[i].expandedUrl) =>
                /\ classify_platform(PassIn[i].profileUrl) = "shortener"
                /\ mem.profiles[i].expandedUrl # PassIn[i].profileUrl

----------------------------------------------------------------------------
(* src/rets/scrape_directory.py, assign_ids step by step: the loop of line  *)
(* 168 and the collision loop of line 174, run twice over one row list      *)

MaxRows == 3

\* the rows of the batches
AssignRows == {ROW_ANN, ROW_DEE, ROW_FAY, ROW_EVE}

RECURSIVE SeqsUpTo(_, _)
SeqsUpTo(S, n) ==
    IF n = 0 THEN {<<>>}
    ELSE SeqsUpTo(S, n - 1)
            \cup {Append(s, x) : s \in {t \in SeqsUpTo(S, n - 1) : Len(t) = n - 1}, x \in S}

AssignBatches == SeqsUpTo(AssignRows, MaxRows)

NewSeen_Kept == mem.seen

\* line 166
NewSeen == {}

\* lines 166-168: assign_ids is called with the parsed rows
AssignBegin ==
    /\ pc \in {"assign_start", "assign_returned"}
    /\ mem.run < 2
    /\ mem' = [mem EXCEPT !.run = @ + 1, !.seen = NewSeen, !.idx = 1,
                          !.ids = <<>>, !.first = mem.ids]
    /\ pc' = "assign_loop"
    /\ UNCHANGED <<disk, args, now>>

\* lines 169-171
AssignPick ==
    /\ pc = "assign_loop" /\ mem.idx <= Len(mem.profiles)
    /\ mem' = [mem EXCEPT !.pid = make_profile_id(mem.profiles[mem.idx]),
                          !.base_pid = make_profile_id(mem.profiles[mem.idx]),
                          !.counter = 1]
    /\ pc' = "assign_while"
    /\ UNCHANGED <<disk, args, now>>

\* lines 174-177, pid in seen
AssignPerturb ==
    /\ pc = "assign_while"
    /\ mem.pid \in mem.seen
    /\ mem' = [mem EXCEPT !.pid = Perturbed(mem.base_pid, mem.counter),
                          !.counter = @ + 1]
    /\ UNCHANGED <<pc, disk, args, now>>

AssignKeep_ForgetsSeen ==
    /\ pc = "assign_while"
    /\ mem.pid \notin mem.seen
    /\ mem' = [mem EXCEPT !.ids = Append(@, mem.pid), !.idx = @ + 1]
    /\ pc' = "assign_loop"
    /\ UNCHANGED <<disk, args, now>>

\* lines 174 and 179-180, pid not in seen
AssignKeep ==
    /\ pc = "assign_while"
    /\ mem.pid \notin mem.seen
    /\ mem' = [mem EXCEPT !.seen = @ \cup {mem.pid},
                          !.ids = Append(@, mem.pid),
                          !.idx = @ + 1]
    /\ pc' = "assign_loop"
    /\ UNCHANGED <<disk, args, now>>

\* line 182
AssignReturn ==
    /\ pc = "assign_loop" /\ mem.idx > Len(mem.profiles)
    /\ pc' = "assign_returned"
    /\ UNCHANGED <<disk, args, mem, now>>

InitAssign ==
    /\ pc = "assign_start"
    /\ disk = [f \in IngestFiles |-> None]
    /\ args = [prog |-> "scrape_directory"]
    /\ \E batch \in AssignBatches :
          mem = [profiles |-> parse_directory_rows(batch), run |-> 0, idx |-> 1,
                 seen |-> {}, ids |-> <<>>, first |-> <<>>,
                 pid |-> <<>>, base_pid |-> <<>>, counter |-> 1]
    /\ now = 1

NextAssign ==
    AssignBegin \/ AssignPick \/ AssignPerturb \/ AssignKeep \/ AssignReturn

SpecAssign == InitAssign /\ [][NextAssign]_vars

\* the loops are run to their end
SpecAssignFair == SpecAssign /\ WF_vars(NextAssign)

\* C17: a run of assign_ids assigns the ids that are a function of the row
\* list alone, and the second run over a row list assigns the sequence of ids
\* the first run assigned.
C17_IdDeterminism ==
    pc = "assign_returned" =>
        /\ mem.ids = AssignedIds(mem.profiles, {})
        /\ mem.run = 2 => mem.ids = mem.first

\* two finished runs over a batch with a perturbed id
C17_Witness ==
    /\ pc = "assign_returned" /\ mem.run = 2
    /\ Len(mem.ids) = 3
    /\ \E i \in 1..Len(mem.ids) : mem.ids[i] # make_profile_id(mem.profiles[i])
    /\ mem.ids = mem.first

Distinct(ids) == \A i, j \in 1..Len(ids) : i # j => ids[i] # ids[j]

\* C18: every run of assign_ids returns, and at every point of a run the ids
\* assigned so far are pairwise distinct.
C18_BatchIdsUnique ==
    /\ [](pc \in {"assign_loop", "assign_while", "assign_returned"} =>
             Distinct(mem.ids))
    /\ <>(pc = "assign_returned" /\ mem.run = 2 /\ Len(mem.ids) = Len(mem.profiles))

\* a finished run over three rows of one digest, the third of which had to be
\* perturbed twice
C18_Witness ==
    /\ pc = "assign_returned"
    /\ Len(mem.ids) = 3
    /\ \A i \in 1..3 : make_profile_id(mem.profiles[i]) = make_profile_id(mem.profiles[1])
    /\ mem.counter = 3
    /\ mem.profiles[1] # mem.profiles[2]
    /\ Distinct(mem.ids)

----------------------------------------------------------------------------
(* The three classify_platform implementations, called on one URL           *)

\* src/rets/tag_short_profiles_platform.py lines 9-62: the text of
\* rescrape_short_profiles.py lines 19-66 without its first comment
tag_classify_platform(url) == classify_platform(url)

\* scripts/report_profile_platforms.py lines 12-46
report_classify_platform(url) ==
    IF ~IsSome(url) THEN "missing_url"
    ELSE LET netloc == lower(Get(url).netloc)
             path == lower(Get(url).path)
             has(x) == Contains(netloc, x)
         IN IF has(<<"b", "i", "t", ".", "l", "y">>) \/ has(<<"t", "i", "n", "y", "u", "r", "l", ".", "c", "o", "m">>) THEN "shortener"
            ELSE IF has(<<"d", "o", "c", "s", ".", "g", "o", "o", "g", "l", "e", ".", "c", "o", "m">>)
                 THEN IF Contains(path, <<"/", "d", "o", "c", "u", "m", "e", "n", "t", "/">>) THEN "google_docs"
                      ELSE IF Contains(path, <<"/", "p", "r", "e", "s", "e", "n", "t", "a", "t", "i", "o", "n", "/">>) THEN "google_slides"
                      ELSE IF Contains(path, <<"/", "v", "i", "e", "w", "e", "r">>) \/ Contains(path, <<"/", "g", "v", "i", "e", "w">>) THEN "google_viewer"
                      ELSE "docs_google_other"
            ELSE IF has(<<"d", "r", "i", "v", "e", ".", "g", "o", "o", "g", "l", "e", ".", "c", "o", "m">>) THEN "google_drive_file"
            ELSE IF has(<<"n", "o", "t", "i", "o", "n", ".", "s", "o">>) \/ has(<<"n", "o", "t", "i", "o", "n", ".", "s", "i", "t", "e">>) THEN "notion"
            ELSE IF has(<<"d", "r", "o", "p", "b", "o", "x", ".", "c", "o", "m">>) \/ has(<<"p", "a", "p", "e", "r", ".", "d", "r", "o", "p", "b", "o", "x", ".", "c", "o", "m">>) THEN "dropbox"
            ELSE IF has(<<"c", "a", "r", "r", "d", ".", "c", "o">>) THEN "carrd"
            ELSE IF has(<<"n", "e", "o", "c", "i", "t", "i", "e", "s", ".", "o", "r", "g">>) THEN "neocities"
            ELSE "custom_site"

\* urlparse(url) raises ValueError("Invalid IPv6 URL") for a host with one
\* bracket and not the other
UrlparseRaises(url) ==
    /\ IsSome(url)
    /\ Contains(Get(url).netloc, <<"[">>) # Contains(Get(url).netloc, <<"]">>)

H_UNKNOWN == <<"u", "n", "k", "n", "o", "w", "n", "-", "h", "o", "s", "t", ".", "e", "x", "a", "m", "p", "l", "e">>

ClassifyHosts ==
    {U_SHORT.netloc, U_GDOC.netloc, U_NOTION.netloc, H_UNKNOWN,
     <<"d", "r", "o", "p", "b", "o", "x", ".", "c", "o", "m">>,
     <<"n", "e", "o", "c", "i", "t", "i", "e", "s", ".", "o", "r", "g">>,
     <<"[", ":", ":", "1">>, <<>>}

ClassifyPaths ==
    {U_GDOC.path, U_SITE.path, <<"/", "v", "i", "e", "w", "e", "r">>,
     <<"/", "p", "a", "p", "e", "r", "/", "x">>, <<>>}

\* the URLs the implementations are called on: an absent or empty URL, and
\* the hosts with the paths
ClassifyInputs ==
    {None} \cup {Some(Url(h, p)) : h \in ClassifyHosts, p \in ClassifyPaths}

\* the outcome of a call: the tag returned, or the exception raised
Outcome(url, tag) ==
    IF UrlparseRaises(url) THEN [raised |-> TRUE, tag |-> None]
    ELSE [raised |-> FALSE, tag |-> Some(tag)]

\* tag_short_profiles_platform.py line 70
TagClassify ==
    /\ pc = "classify_start"
    /\ mem' = [mem EXCEPT !.impl = "tag_short_profiles_platform",
                          !.outcome = Outcome(mem.url, tag_classify_platform(mem.url))]
    /\ pc' = "classified"
    /\ UNCHANGED <<disk, args, now>>

\* rescrape_short_profiles.py line 124
RescrapeClassify ==
    /\ pc = "classify_start"
    /\ mem' = [mem EXCEPT !.impl = "rescrape_short_profiles",
                          !.outcome = Outcome(mem.url, classify_platform(mem.url))]
    /\ pc' = "classified"
    /\ UNCHANGED <<disk, args, now>>

\* report_profile_platforms.py line 109
ReportClassify ==
    /\ pc = "classify_start"
    /\ mem' = [mem EXCEPT !.impl = "report_profile_platforms",
                          !.outcome = Outcome(mem.url, report_classify_platform(mem.url))]
    /\ pc' = "classified"
    /\ UNCHANGED <<disk, args, now>>

InitClassify ==
    /\ pc = "classify_start"
    /\ disk = [f \in PassFiles |-> None]
    /\ args = NoArgs
    /\ \E url \in ClassifyInputs :
          mem = [url |-> url, impl |-> "none", outcome |-> [raised |-> FALSE, tag |-> None]]
    /\ now = 1

NextClassify == TagClassify \/ RescrapeClassify \/ ReportClassify

SpecClassify == InitClassify /\ [][NextClassify]_vars

\* C21: a call of any classify_platform returns a tag and does not raise; the
\* tag is missing_url for an empty or absent URL and custom_site for a URL
\* whose host matches no rule.
C21_ClassifierTotal ==
    pc = "classified" =>
        /\ ~mem.outcome.raised
        /\ IsSome(mem.outcome.tag)
        /\ ~IsSome(mem.url) => mem.outcome.tag = Some("missing_url")
        /\ (IsSome(mem.url) /\ Get(mem.url).netloc = H_UNKNOWN) =>
              mem.outcome.tag = Some("custom_site")

----------------------------------------------------------------------------
(* canonical_url: merge_style_into_master.py, scrape_directory_style_323.py *)
(* and debug_missing_style_urls.py                                          *)

MaxTail == 3

IsAlpha(c) == c \in {"a", "h", "p", "s", "t", "A", "H", "P", "T"}

\* urllib.parse.scheme_chars
IsSchemeChar(c) == IsAlpha(c) \/ c \in {"+", "-", "."}

\* str.find, counted from 1; 0 when the character is absent
Find(s, c) ==
    IF \E i \in 1..Len(s) : s[i] = c
    THEN CHOOSE i \in 1..Len(s) : s[i] = c /\ \A j \in 1..(i - 1) : s[j] # c
    ELSE 0

\* s[:n] and s[n:] of Python, counted from 0
Take(s, n) == SubSeq(s, 1, IF n < Len(s) THEN n ELSE Len(s))
Drop(s, n) == SubSeq(s, n + 1, Len(s))

\* the part of s before the first c, all of s when c is absent
Before(s, c) == IF Find(s, c) = 0 THEN s ELSE Take(s, Find(s, c) - 1)

\* str.rstrip("/")
RECURSIVE rstrip_slash(_)
rstrip_slash(t) ==
    IF t # <<>> /\ t[Len(t)] = "/" THEN rstrip_slash(SubSeq(t, 1, Len(t) - 1)) ELSE t

\* urllib.parse.uses_netloc, the schemes of the inputs
uses_netloc == {<<"h", "t", "t", "p">>, <<"h", "t", "t", "p", "s">>}

\* urllib.parse.urlsplit: scheme, netloc and path of a string
urlsplit(url) ==
    LET u0 == lstrip(url)
        i == Find(u0, ":")
        hasScheme == /\ i > 1
                     /\ IsAlpha(u0[1])
                     /\ \A k \in 1..(i - 1) : IsSchemeChar(u0[k])
        scheme == IF hasScheme THEN lower(Take(u0, i - 1)) ELSE <<>>
        u1 == IF hasScheme THEN Drop(u0, i) ELSE u0
        hasNetloc == Take(u1, 2) = <<"/", "/">>
        rest == Drop(u1, 2)
        ends == {k \in 1..Len(rest) : rest[k] \in {"/", "?", "#"}}
        delim == IF ends = {} THEN Len(rest) + 1
                 ELSE CHOOSE k \in ends : \A j \in ends : k <= j
        netloc == IF hasNetloc THEN Take(rest, delim - 1) ELSE <<>>
        u2 == IF hasNetloc THEN Drop(rest, delim - 1) ELSE u1
    IN [scheme |-> scheme, netloc |-> netloc, path |-> Before(Before(u2, "#"), "?")]

\* urllib.parse.urlunsplit with an empty query and an empty fragment
urlunsplit(scheme, netloc, path) ==
    LET url == IF netloc # <<>> \/ (scheme # <<>> /\ scheme \in uses_netloc /\ Take(path, 2) # <<"/", "/">>)
               THEN <<"/", "/">> \o netloc
                    \o (IF path # <<>> /\ path[1] # "/" THEN <<"/">> \o path ELSE path)
               ELSE path
    IN IF scheme # <<>> THEN scheme \o <<":">> \o url ELSE url

\* merge_style_into_master.py lines 14-23
canonical_url(u) ==
    LET s == strip(u)
        p == urlsplit(s)
        scheme == IF lower(p.scheme) # <<>> THEN lower(p.scheme) ELSE <<"h", "t", "t", "p", "s">>
    IN IF s = <<>> THEN <<>>
       ELSE urlunsplit(scheme, lower(p.netloc), rstrip_slash(p.path))

\* scrape_directory_style_323.py lines 26-32
scrape_canonical_url(u) ==
    LET s == strip(u)
        parts == urlsplit(s)
    IN IF s = <<>> THEN <<>>
       ELSE urlunsplit(parts.scheme, parts.netloc, rstrip_slash(parts.path))

\* debug_missing_style_urls.py lines 12-17
debug_canonical_url(u) ==
    LET s == strip(u)
        p == urlsplit(s)
    IN IF s = <<>> THEN <<>>
       ELSE urlunsplit(p.scheme, p.netloc, rstrip_slash(p.path))

CanonHeads ==
    {<<>>, <<"h", "t", "t", "p", ":", "/", "/", "a">>,
     <<"H", "T", "T", "P", ":", "/", "/", "A">>, <<"/", "/", "a">>}

CanonTails == SeqsUpTo({"/", " ", "a", "?", "#"}, MaxTail)

\* the strings canonical_url is called on
CanonInputs == {h \o t : h \in CanonHeads, t \in CanonTails}

\* merge_style_into_master.py lines 51 and 62: canonical_url of a value,
\* then of its own result
MergeCanonical ==
    /\ pc = "canon"
    /\ mem.n < 2
    /\ mem.impl \in {"none", "merge_style_into_master"}
    /\ mem' = [mem EXCEPT !.impl = "merge_style_into_master", !.n = @ + 1,
                          !.prev = mem.cur, !.cur = canonical_url(mem.cur)]
    /\ UNCHANGED <<pc, disk, args, now>>

\* scrape_directory_style_323.py
ScrapeCanonical ==
    /\ pc = "canon"
    /\ mem.n < 2
    /\ mem.impl \in {"none", "scrape_directory_style_323"}
    /\ mem' = [mem EXCEPT !.impl = "scrape_directory_style_323", !.n = @ + 1,
                          !.prev = mem.cur, !.cur = scrape_canonical_url(mem.cur)]
    /\ UNCHANGED <<pc, disk, args, now>>

\* debug_missing_style_urls.py lines 23-24
DebugCanonical ==
    /\ pc = "canon"
    /\ mem.n < 2
    /\ mem.impl \in {"none", "debug_missing_style_urls"}
    /\ mem' = [mem EXCEPT !.impl = "debug_missing_style_urls", !.n = @ + 1,
                          !.prev = mem.cur, !.cur = debug_canonical_url(mem.cur)]
    /\ UNCHANGED <<pc, disk, args, now>>

InitCanonical ==
    /\ pc = "canon"
    /\ disk = [f \in PassFiles |-> None]
    /\ args = NoArgs
    /\ \E u \in CanonInputs :
          mem = [u |-> u, impl |-> "none", n |-> 0, prev |-> u, cur |-> u]
    /\ now = 1

NextCanonical == MergeCanonical \/ ScrapeCanonical \/ DebugCanonical

SpecCanonical == InitCanonical /\ [][NextCanonical]_vars

\* C22: canonical_url applied to its own result returns that result, for
\* every input string and each of the three implementations.
C22_CanonicalIdempotent ==
    (pc = "canon" /\ mem.n = 2) => mem.cur = mem.prev

----------------------------------------------------------------------------
(* merge_style_into_master.py: the join of the style rows with the master  *)

MaxStyleRows == 2

MASTER_JSON == "data/profiles_master.json"
STYLE_JSON == "data/directory/style_323.json"
StyleFiles == {MASTER_JSON, STYLE_JSON}

MONO == <<"m", "o", "n", "o">>
MONOGAMOUS == <<"m", "o", "n", "o", "g", "a", "m", "o", "u", "s">>
MONOGAMY == <<"m", "o", "n", "o", "g", "a", "m", "y">>
POLY == <<"p", "o", "l", "y">>
POLYAMOROUS == <<"p", "o", "l", "y", "a", "m", "o", "r", "o", "u", "s">>
POLYAMORY == <<"p", "o", "l", "y", "a", "m", "o", "r", "y">>
ANY == <<"a", "n", "y">>
MONO_POLY == <<"m", "o", "n", "o", " ", "p", "o", "l", "y">>
POLY_MONO == <<"p", "o", "l", "y", " ", "m", "o", "n", "o">>
SU_A == <<"h", "t", "t", "p", ":", "/", "/", "a">>
SU_A2 == <<"H", "T", "T", "P", ":", "/", "/", "A", "/">>
SU_B == <<"h", "t", "t", "p", ":", "/", "/", "a", "/", "a">>
SU_C == <<"h", "t", "t", "p", ":", "/", "/", "a", "/", "t">>

\* merge_style_into_master.py lines 26-39
normalize_style(raw) ==
    LET s == IF IsSome(raw) THEN lower(strip(Get(raw))) ELSE <<>>
    IN IF s = <<>> THEN None
       ELSE IF s \in {MONO, MONOGAMOUS, MONOGAMY} THEN Some(MONO)
       ELSE IF s \in {POLY, POLYAMOROUS, POLYAMORY} THEN Some(POLY)
       ELSE IF s \in {ANY} THEN Some(ANY)
       ELSE IF s \in {MONO_POLY, POLY_MONO} THEN Some(ANY)
       ELSE None

\* lines 50 and 62: canonical_url of the profileUrl of every row
CanonKeys(rows) == [i \in DOMAIN rows |-> canonical_url(rows[i].profileUrl)]

\* lines 49-56: raw_by_url, the last row of a URL wins; rows without a
\* canonical URL are skipped
raw_by_url(styles, sk) ==
    [u \in {sk[i] : i \in DOMAIN sk} \ {<<>>} |->
        LET rows == {i \in DOMAIN sk : sk[i] = u}
        IN styles[CHOOSE i \in rows : \A j \in rows : j <= i].style]

\* lines 61-66: the master record with canonical URL u is joined with a row
IsMatched(u, raw) == u # <<>> /\ u \in DOMAIN raw

\* lines 68-77
Styled(p, u, raw) ==
    IF ~IsMatched(u, raw) THEN p
    ELSE [p EXCEPT !.datingStyleRaw = raw[u], !.datingStyle = normalize_style(raw[u])]

\* lines 42-80: the master file written and the two lines printed
Joined(master, mk, raw) ==
    LET hit == {i \in DOMAIN master : IsMatched(mk[i], raw)}
        out == [i \in DOMAIN master |-> Styled(master[i], mk[i], raw)]
        normed == {i \in hit : IsSome(out[i].datingStyle)}
    IN [master |-> out,
        stdout |-> << [line |-> "Matched", n |-> Cardinality(hit)],
                      [line |-> "Wrote normalized datingStyle for", n |-> Cardinality(normed)] >>]

\* everything a run leaves behind
StyleOutput(master, styles) ==
    Joined(master, CanonKeys(master), raw_by_url(styles, CanonKeys(styles)))

\* main lines 43-56: both files are read and the style rows are indexed
StyleLoad ==
    /\ pc = "style_start"
    /\ IsSome(disk[MASTER_JSON]) /\ IsSome(disk[STYLE_JSON])
    /\ mem' = [mem EXCEPT !.master = Get(disk[MASTER_JSON]),
                          !.styles = Get(disk[STYLE_JSON]),
                          !.raw_by_url = raw_by_url(Get(disk[STYLE_JSON]), CanonKeys(Get(disk[STYLE_JSON])))]
    /\ pc' = "style_loaded"
    /\ UNCHANGED <<disk, args, now>>

\* main lines 58-80: the loop over the master, the write and the two prints
StyleMerge ==
    /\ pc = "style_loaded"
    /\ mem' = [mem EXCEPT !.out = Joined(mem.master, CanonKeys(mem.master), mem.raw_by_url)]
    /\ disk' = [disk EXCEPT ![MASTER_JSON] = Some(mem'.out.master)]
    /\ pc' = "style_merged"
    /\ UNCHANGED <<args, now>>

\* lines 43-44: read_text of a file that is not there raises
StyleMergeMissing ==
    /\ pc = "style_start"
    /\ ~IsSome(disk[MASTER_JSON]) \/ ~IsSome(disk[STYLE_JSON])
    /\ pc' = "style_failed"
    /\ UNCHANGED <<disk, args, mem, now>>

MRec(url, style) == [profileUrl |-> url, datingStyleRaw |-> None, datingStyle |-> style]
SRow(url, raw) == [profileUrl |-> url, style |-> raw]

StyleMasters ==
    SeqsUpTo({MRec(SU_A, Some(ANY)), MRec(SU_B, None), MRec(<<>>, None)}, MaxStyleRows)

StyleRows ==
    {SRow(u, r) : u \in {SU_A2, SU_B, SU_C, <<>>}, r \in {Some(MONO), Some(<<"a">>)}}

InitStyle ==
    /\ pc = "style_start"
    /\ \E m \in StyleMasters, s \in {None} \cup {Some(x) : x \in SeqsUpTo(StyleRows, MaxStyleRows)} :
          disk = [f \in StyleFiles |-> IF f = MASTER_JSON THEN Some(m) ELSE s]
    /\ args = NoArgs
    /\ mem = [master |-> <<>>, styles |-> <<>>, raw_by_url |-> <<>>,
              out |-> [master |-> <<>>, stdout |-> <<>>]]
    /\ now = 1

NextStyle == StyleLoad \/ StyleMerge \/ StyleMergeMissing

SpecStyle == InitStyle /\ [][NextStyle]_vars

\* the style row i joins no record of the master
Unmatched(mk, sk, i) == \A k \in DOMAIN mk : mk[k] = <<>> \/ mk[k] # sk[i]

\* C23: a style row whose canonical URL matches no master record shows in
\* what the run leaves behind: the run with the row and the run without it
\* differ in the printed lines or in the master file.
C23_UnmatchedRowsReported ==
    pc = "style_merged" =>
        \A i \in DOMAIN mem.styles :
            Unmatched(CanonKeys(mem.master), CanonKeys(mem.styles), i) =>
                mem.out # StyleOutput(mem.master, Without(mem.styles, i))

----------------------------------------------------------------------------
(* A pass interrupted by the operator *)

\* scrape_profiles.py lines 107-217, extract_longform_profiles.py lines
\* 137-166: KeyboardInterrupt is caught by no handler of the loop (the
\* handlers catch Exception and requests.RequestException), so the program
\* ends where it is; the write after the loop is not reached
PassInterrupt ==
    /\ InLoop("scrape_loop") \/ InLoop("fetch_loop")
    /\ pc' = "interrupted"
    /\ UNCHANGED <<disk, args, mem, now>>

NextCancel == NextScrape \/ NextFetch \/ PassInterrupt

SpecCancel == InitPasses /\ [][NextCancel]_vars

\* the rows fully processed when the interrupt arrived
RowsDone == mem.idx - 1

\* the store with the results of the rows processed: the records the scrape
\* has built (alone, or followed by the rows not reached), the list the
\* fetch pass has updated in place
StoreAfterRows ==
    IF args.prog = "scrape_profiles"
    THEN {Some(mem.parsed),
          Some(mem.parsed \o SubSeq(mem.profiles, mem.idx, Len(mem.profiles)))}
    ELSE {Some(mem.profiles)}

\* C24: a pass interrupted after k >= 1 of its rows leaves, in the file it
\* writes its records to, the store with the results of those k rows.
C24_InterruptKeepsProcessedRows ==
    (pc = "interrupted" /\ RowsDone >= 1) => disk[PassOutFile] \in StoreAfterRows

----------------------------------------------------------------------------
(* The word counts the three gates compare *)

\* rescrape_short_profiles_js.py lines 15-19: the text of word_count of
\* merge_fulltext_by_id.py lines 7-10
js_word_count(t) == IF t = <<>> THEN 0 ELSE Cardinality(RunStarts(t, IsWordChar))

\* merge_fulltext_by_id.py lines 7-10 applied to the two texts
GateMerge ==
    /\ pc = "gates"
    /\ ~IsSome(mem.merge)
    /\ mem' = [mem EXCEPT !.merge = Some(word_count(mem.cand) > word_count(mem.old))]
    /\ UNCHANGED <<pc, disk, args, now>>

\* rescrape_short_profiles_js.py lines 15-19 applied to the two texts
GateJs ==
    /\ pc = "gates"
    /\ ~IsSome(mem.js)
    /\ mem' = [mem EXCEPT !.js = Some(js_word_count(mem.cand) > js_word_count(mem.old))]
    /\ UNCHANGED <<pc, disk, args, now>>

\* rescrape_short_profiles.py line 146: len(new_text.split()) > len(old_text.split())
GateRescrape ==
    /\ pc = "gates"
    /\ ~IsSome(mem.rescrape)
    /\ mem' = [mem EXCEPT !.rescrape = Some(split_len(mem.cand) > split_len(mem.old))]
    /\ UNCHANGED <<pc, disk, args, now>>

InitGates ==
    /\ pc = "gates"
    /\ disk = [f \in PassFiles |-> None]
    /\ args = NoArgs
    /\ \E old \in Texts, cand \in Texts :
          mem = [old |-> old, cand |-> cand, merge |-> None, js |-> None, rescrape |-> None]
    /\ now = 1

NextGates == GateMerge \/ GateJs \/ GateRescrape

SpecGates == InitGates /\ [][NextGates]_vars

\* C25: for every pair of texts the three gates give one answer to "the
\* candidate has more words than the old text".
C25_GatesAgree ==
    (IsSome(mem.merge) /\ IsSome(mem.js) /\ IsSome(mem.rescrape)) =>
        (mem.merge = mem.js /\ mem.js = mem.rescrape)

----------------------------------------------------------------------------
(* fetch_page_text of the two headless extractors, one row *)

\* the wait conditions of page.goto, by how much of the page they wait for;
\* "load" is the one page.goto uses when wait_until is not given
Strictness(w) ==
    CASE w = "commit" -> 0 [] w = "domcontentloaded" -> 1
      [] w = "load" -> 2 [] w = "networkidle" -> 3

\* extract_longform_profiles_js.py lines 41-42: the first page.goto
JsNavFirst ==
    /\ pc = "render_start"
    /\ args.prog = "process_profiles_js"
    /\ \E ok \in BOOLEAN :
          /\ pc' = IF ok THEN "render_loaded" ELSE "render_retry"
          /\ mem' = [mem EXCEPT !.waits = Append(@, "networkidle"),
                                !.fails = IF ok THEN @ ELSE @ + 1]
    /\ UNCHANGED <<disk, args, now>>

\* extract_longform_profiles_js.py lines 43-50 and 91-100: the second
\* page.goto; what it raises leaves fetch_page_text and the row is skipped
JsNavRetry ==
    /\ pc = "render_retry"
    /\ args.prog = "process_profiles_js"
    /\ \E ok \in BOOLEAN :
          /\ pc' = IF ok THEN "render_loaded" ELSE "render_failed"
          /\ mem' = [mem EXCEPT !.waits = Append(@, "domcontentloaded"),
                                !.fails = IF ok THEN @ ELSE @ + 1]
    /\ UNCHANGED <<disk, args, now>>

\* extract_longform_profiles_js.py lines 52-58 and 91-113: the body is read
\* and stored, or reading it raises and the row is skipped
JsBody ==
    /\ pc = "render_loaded"
    /\ args.prog = "process_profiles_js"
    /\ \/ /\ pc' = "render_failed"
          /\ UNCHANGED mem
       \/ /\ \E full_text \in PageTexts :
                mem' = [mem EXCEPT !.profile = StoreText(@, full_text, now)]
          /\ pc' = "render_done"
    /\ UNCHANGED <<disk, args, now>>

\* rescrape_short_profiles_js.py lines 29-30: the first page.goto
JsrNavFirst ==
    /\ pc = "render_start"
    /\ args.prog = "rescrape_short_profiles_js"
    /\ \E ok \in BOOLEAN :
          /\ pc' = IF ok THEN "render_loaded" ELSE "render_retry"
          /\ mem' = [mem EXCEPT !.waits = Append(@, "domcontentloaded"),
                                !.fails = IF ok THEN @ ELSE @ + 1]
    /\ UNCHANGED <<disk, args, now>>

\* rescrape_short_profiles_js.py lines 31-38 and 98-115: the second
\* page.goto, without wait_until; when it fails the text is "" and the gate
\* of line 109 decides
JsrNavRetry ==
    /\ pc = "render_retry"
    /\ args.prog = "rescrape_short_profiles_js"
    /\ \E ok \in BOOLEAN :
          /\ pc' = IF ok THEN "render_loaded" ELSE "render_failed"
          /\ mem' = [mem EXCEPT !.waits = Append(@, "load"),
                                !.fails = IF ok THEN @ ELSE @ + 1,
                                !.profile = IF ok THEN @ ELSE JsrMerge(@, <<>>)]
    /\ UNCHANGED <<disk, args, now>>

\* rescrape_short_profiles_js.py lines 40-50 and 98-115: the body text, ""
\* when it could not be read, goes through the gate of line 109
JsrBody ==
    /\ pc = "render_loaded"
    /\ args.prog = "rescrape_short_profiles_js"
    /\ \E new_text \in PageTexts :
          mem' = [mem EXCEPT !.profile = JsrMerge(@, new_text)]
    /\ pc' = "render_done"
    /\ UNCHANGED <<disk, args, now>>

InitRender ==
    /\ pc = "render_start"
    /\ disk = [f \in PassFiles |-> None]
    /\ \E prog \in {"process_profiles_js", "rescrape_short_profiles_js"} :
          args = [prog |-> prog]
    /\ \E row \in {r \in PassRow1 : IsSome(r.profileUrl)} :
          mem = [old |-> row, profile |-> row, waits |-> <<>>, fails |-> 0]
    /\ now = 1

NextRender ==
    JsNavFirst \/ JsNavRetry \/ JsBody \/ JsrNavFirst \/ JsrNavRetry \/ JsrBody

SpecRender == InitRender /\ [][NextRender]_vars

\* C26: a row gets at most two navigation attempts, the second only after
\* the first failed and with a looser wait condition; when the second fails
\* too the row has failed and its fullText is the one it had.
C26_RetryOnceLooser ==
    /\ Len(mem.waits) <= 2
    /\ Len(mem.waits) = 2 =>
          /\ mem.fails >= 1
          /\ Strictness(mem.waits[2]) < Strictness(mem.waits[1])
    /\ mem.fails = 2 =>
          /\ pc = "render_failed"
          /\ mem.profile.fullText = mem.old.fullText

----------------------------------------------------------------------------
(* The remote requests and the delays of a pass, in the order they happen *)

DelayProgs == {"process_profiles", "process_profiles_js", "scrape_profiles"}

DelayRows ==
    {PRec("usr_1", Some(U_SITE), None, None, None, Some(0)),
     PRec("usr_2", None, None, None, None, Some(0))}

\* a pass starts over the rows it has loaded
DelayStart ==
    /\ Idle
    /\ \E prog \in DelayProgs, rows \in SeqsUpTo(DelayRows, MaxRows) :
          /\ args' = [prog |-> prog]
          /\ mem' = [profiles |-> rows, idx |-> 1, log |-> <<>>]
    /\ pc' = "delay_loop"
    /\ UNCHANGED <<disk, now>>

\* extract_longform_profiles.py lines 141-143, extract_longform_profiles_js.py
\* lines 85-87, scrape_profiles.py lines 119-129: a row without profileUrl
DelayNoUrl ==
    /\ InLoop("delay_loop")
    /\ ~IsSome(Row.profileUrl)
    /\ mem' = [mem EXCEPT !.idx = @ + 1]
    /\ UNCHANGED <<pc, disk, args, now>>

\* extract_longform_profiles.py lines 147-151: the request fails, `continue`
FetchRequestFailed ==
    /\ InLoop("delay_loop")
    /\ args.prog = "process_profiles"
    /\ IsSome(Row.profileUrl)
    /\ mem' = [mem EXCEPT !.log = Append(@, "request"), !.idx = @ + 1]
    /\ UNCHANGED <<pc, disk, args, now>>

\* extract_longform_profiles.py lines 147-166: the request succeeds, then
\* time.sleep(delay_seconds)
FetchRequestOk ==
    /\ InLoop("delay_loop")
    /\ args.prog = "process_profiles"
    /\ IsSome(Row.profileUrl)
    /\ mem' = [mem EXCEPT !.log = @ \o <<"request", "sleep">>, !.idx = @ + 1]
    /\ UNCHANGED <<pc, disk, args, now>>

\* extract_longform_profiles_js.py lines 91-100: fetch_page_text raises
JsRequestFailed ==
    /\ InLoop("delay_loop")
    /\ args.prog = "process_profiles_js"
    /\ IsSome(Row.profileUrl)
    /\ mem' = [mem EXCEPT !.log = Append(@, "request"), !.idx = @ + 1]
    /\ UNCHANGED <<pc, disk, args, now>>

\* extract_longform_profiles_js.py lines 91-118: the page is read, then
\* time.sleep(delay_seconds)
JsRequestOk ==
    /\ InLoop("delay_loop")
    /\ args.prog = "process_profiles_js"
    /\ IsSome(Row.profileUrl)
    /\ mem' = [mem EXCEPT !.log = @ \o <<"request", "sleep">>, !.idx = @ + 1]
    /\ UNCHANGED <<pc, disk, args, now>>

\* scrape_profiles.py lines 131-156: time.sleep, then requests.get, whatever
\* its outcome
ScrapeRequest ==
    /\ InLoop("delay_loop")
    /\ args.prog = "scrape_profiles"
    /\ IsSome(Row.profileUrl)
    /\ mem' = [mem EXCEPT !.log = @ \o <<"sleep", "request">>, !.idx = @ + 1]
    /\ UNCHANGED <<pc, disk, args, now>>

NextDelay ==
    \/ DelayStart \/ DelayNoUrl \/ FetchRequestFailed \/ FetchRequestOk
    \/ JsRequestFailed \/ JsRequestOk \/ ScrapeRequest

SpecDelay == InitPasses /\ [][NextDelay]_vars

\* C27: in one pass a delay is executed between the request of a row and the
\* request of the next row requested, whatever the outcome of the first.
C27_DelayBetweenRequests ==
    pc = "delay_loop" =>
        \A i \in 1..(Len(mem.log) - 1) :
            ~(mem.log[i] = "request" /\ mem.log[i + 1] = "request")

----------------------------------------------------------------------------
(* merge_fulltext_by_id run on its own output *)

MaxUpdates == 2

TwiceFiles == {"base", "updates", "out", "out2"}

TwiceBases ==
    {<<Rec("usr_1", t, a), Rec("usr_2", Some(<<"a">>), StaleAux)>> :
        t \in {None, Some(<<"a", " ">>), Some(<<"a", " ", "a">>)},
        a \in {StaleAux, BareAux}}

\* several updates may have one id; usr_9 is in no base
TwiceUpdateRecs ==
    {Rec("usr_1", t, a) :
        t \in {None, Some(<<"a">>), Some(<<"-", "a">>), Some(<<"a", " ", "a">>)},
        a \in {FreshAux, EmptyAux}}
      \cup {Rec("usr_2", Some(<<"a", " ", "a">>), NoAux),
            Rec("usr_9", Some(<<"a">>), FreshAux)}

\* the second invocation: the output of the first is the base, the updates
\* and min_gain are the same
MergeRerun ==
    /\ pc = "merge_done"
    /\ args.base_json = "base"
    /\ args' = [args EXCEPT !.base_json = "out", !.output_json = "out2"]
    /\ pc' = "merge_start"
    /\ UNCHANGED <<disk, mem, now>>

InitTwice ==
    /\ pc = "merge_start"
    /\ \E b \in TwiceBases, u \in SeqsUpTo(TwiceUpdateRecs, MaxUpdates) :
          disk = [f \in TwiceFiles |->
                    IF f = "base" THEN Some(b)
                    ELSE IF f = "updates" THEN Some(u) ELSE None]
    /\ \E g \in 0..MaxGain :
          args = [base_json |-> "base", updates_json |-> "updates",
                  output_json |-> "out", min_gain |-> g]
    /\ mem = [base |-> <<>>, updates |-> <<>>, k |-> 1,
              touched |-> 0, improved |-> 0, missing |-> 0]
    /\ now = 0

NextTwice == NextMerge \/ MergeRerun

SpecTwice == InitTwice /\ [][NextTwice]_vars

\* the second run has written its output
SecondDone == pc = "merge_done" /\ args.base_json = "out"

\* C28: with min_gain >= 0 the merge applied to its own output, with the
\* same updates and min_gain, writes an output equal to its input, in
\* fullText and in the auxiliary fields.
C28_MergeIdempotent ==
    SecondDone => disk["out2"] = disk["out"]

\* a second run after a first that changed the base with two updates of one id
C28_Witness ==
    /\ SecondDone
    /\ disk["out"] # disk["base"]
    /\ \E j, k \in 1..Len(mem.updates) :
          j # k /\ mem.updates[j].id = "usr_1" /\ mem.updates[k].id = "usr_1"
    /\ mem.improved >= 1

----------------------------------------------------------------------------
(* move_profile_to_bucket.py, one file write at a time *)

FirstWrite_Remaining(a, m) == [path |-> out_path(a), data |-> m.remaining]

\* line 72: write_list(args.bucket, bucket)
FirstWrite(a, m) == [path |-> a.bucket, data |-> m.bucket]

\* line 73: write_list(out_path, remaining)
SecondWrite(a, m) == [path |-> out_path(a), data |-> m.remaining]

\* lines 34-66 of a move that is not a dry run and finds the id
MoveBegin ==
    /\ Idle
    /\ \E a \in MoveArgs :
          /\ IsSome(MoveLocals(disk, a).match)
          /\ ~DryRun(a)
          /\ args' = a
          /\ mem' = MoveStamped(MoveLocals(disk, a), a, now)
    /\ pc' = "move_write_bucket"
    /\ UNCHANGED <<disk, now>>

\* line 72
MoveWriteBucket ==
    /\ pc = "move_write_bucket"
    /\ disk' = write_list(disk, FirstWrite(args, mem).path, FirstWrite(args, mem).data)
    /\ pc' = "move_write_remaining"
    /\ UNCHANGED <<args, mem, now>>

\* line 73
MoveWriteRemaining ==
    /\ pc = "move_write_remaining"
    /\ disk' = write_list(disk, SecondWrite(args, mem).path, SecondWrite(args, mem).data)
    /\ pc' = "move_done"
    /\ UNCHANGED <<args, mem, now>>

\* the write the program is at
PendingWrite ==
    IF pc = "move_write_bucket" THEN FirstWrite(args, mem) ELSE SecondWrite(args, mem)

\* lines 16-18: the program dies before or inside the write_text it is at;
\* the file keeps its content, is left truncated, or has all of the new text
MoveCrash ==
    /\ pc \in {"move_write_bucket", "move_write_remaining"}
    /\ \E content \in {disk[PendingWrite.path], Some(<<>>), Some(PendingWrite.data)} :
          disk' = [disk EXCEPT ![PendingWrite.path] = content]
    /\ pc' = "move_crashed"
    /\ UNCHANGED <<args, mem, now>>

NextMoveSteps == MoveBegin \/ MoveWriteBucket \/ MoveWriteRemaining \/ MoveCrash

SpecMoveSteps == InitTriage /\ [][NextMoveSteps]_vars

MoveStarted ==
    pc \in {"move_write_bucket", "move_write_remaining", "move_done", "move_crashed"}

----------------------------------------------------------------------------
(* scrape_profiles started over a data tree that earlier runs have filled *)

\* data/latest holds the snapshot an earlier run published; the processed
\* directory of this stamp is empty or holds the output of a run of today
InitAbort ==
    /\ pc = "idle"
    /\ \E st \in {None} \cup {Some(x) : x \in PassStores},
          published \in {None, Some(<<PassRow2>>)},
          processed \in {None, Some(<<PassRow2>>)} :
          disk = [f \in PassFiles |->
                    IF f = F_DIRECTORY THEN st
                    ELSE IF f = F_LATEST_PROFILES THEN published
                    ELSE IF f = F_PROFILES THEN processed
                    ELSE None]
    /\ args = NoArgs
    /\ mem = NoMem
    /\ now = 1

SpecAbort == InitAbort /\ [][NextScrape]_vars

\* C30: the step on which scrape_profiles aborts for want of
\* data/directory/latest.json leaves every file of the data tree as it was.
C30_AbortLeavesData ==
    [][pc' = "scrape_aborted" => disk' = disk]_vars

====
